---- MODULE Spec2Model ----
(***************************************************************************)
(* Fact-verification inference backend: the aggregate pipeline             *)
(* (run_inference), the streamed pipeline (stream_inference._generate      *)
(* wrapped by ndjson_stream) and the composite evidence provider.          *)
(*                                                                         *)
(* Numbers: similarities and stances are kept in tenths, directional       *)
(* scores and sums in hundredths; wall-clock time in half seconds.         *)
(***************************************************************************)
EXTENDS Integers, Sequences, FiniteSets, TLC

\* ---------------------------------------------------------------- bounds
MaxSent == 2
MaxTopK == 2
TickLen == 15
MaxClock == 45
MaxBackends == 2
MaxResults == 2
MaxLimit == 2
MaxRetrievals == 2
MaxEvid == 3
MaxTokens == 3
MaxBatch == 2
MaxUnits == 4
MaxAnchors == 3

\* ------------------------------------------------------ program constants
\* heartbeat_interval_sec=10.0 passed by stream_inference, in half seconds
heartbeat_interval_sec == 20
\* the 0.5 s floor of max(0.5, heartbeat_interval_sec), in half seconds
MinGap == 1
\* label threshold 0.6, in hundredths
LabelThreshold == 60
\* a label rule without a margin between the sums
LabelRatio_even == 12 - 2
\* label ratio 1.2, in tenths
LabelRatio == 12
\* stance values, in tenths
StanceContradict == -9
StanceAgree == 6
StanceDisagree == -6

Max(a, b) == IF a >= b THEN a ELSE b
Min(a, b) == IF a <= b THEN a ELSE b
Abs(a) == IF a >= 0 THEN a ELSE -a

\* ----------------------------------------------------------- claim detector
\* A text is written as the sequence of its whitespace-separated tokens; a
\* token is the punctuation before its word, the word, and the punctuation
\* after it.  The empty sequence is the empty string.
Tok(pre, word, post) == [pre |-> pre, word |-> word, post |-> post]

W(word) == Tok("", word, "")

\* a word of 1998 lower-case letters
LongWord == "a{1998}"

\* len(word)
WordLen(word) ==
  CASE word \in {"A"} -> 1
    [] word \in {"is", "IS", "it", "of", "42"} -> 2
    [] word \in {"cat", "the", "The", "b2b", "not"} -> 3
    [] word \in {"said", "what", "What", "NASA", "time", "flat"} -> 4
    [] word \in {"Paris", "Earth", "grows"} -> 5
    [] word \in {"France", "Please"} -> 6
    [] word \in {"capital"} -> 7
    [] word \in {"According"} -> 9
    [] word = LongWord -> 1998

\* len of a run of punctuation
PunctLen(p) ==
  CASE p = "" -> 0
    [] p \in {"(", ")", ".", "?", "!"} -> 1
    [] p \in {".)", "?)", ")."} -> 2

\* word.lower()
lower(word) ==
  CASE word = "IS" -> "is"
    [] word = "A" -> "a"
    [] word = "The" -> "the"
    [] word = "What" -> "what"
    [] word = "NASA" -> "nasa"
    [] word = "Paris" -> "paris"
    [] word = "Earth" -> "earth"
    [] word = "France" -> "france"
    [] word = "Please" -> "please"
    [] word = "According" -> "according"
    [] OTHER -> word

\* any(ch in _NUMERIC_TOKENS for ch in word)
HasDigit(word) == word \in {"42", "b2b"}

\* word[:1].isupper()
StartsUpper(word) ==
  word \in {"A", "IS", "The", "What", "NASA", "Paris", "Earth", "France", "Please",
            "According"}

\* word.isupper(): some cased character and none of them lower-case
AllUpper(word) == word \in {"A", "IS", "NASA"}

_ASSERTIVE_VERBS ==
  {"is", "are", "was", "were", "be", "been", "being", "has", "have", "had",
   "does", "do", "did", "claims", "claim", "states", "state", "reports", "report",
   "shows", "show", "demonstrates", "demonstrate", "confirms", "confirm",
   "suggests", "suggest"}

_MODAL_VERBS == {"will", "would", "can", "could", "should", "must", "may", "might"}

_NON_CLAIM_LEADS ==
  {"who", "what", "when", "where", "why", "how", "which", "whom", "whose",
   "please", "note", "remember", "consider", "imagine", "let's", "let", "ensure"}

_REPORTING_VERBS == {"said", "says", "according", "reported", "reports"}

\* the last character of a run of punctuation ("" when there is none)
LastChar(p) ==
  CASE p = "" -> ""
    [] p \in {".", ")."} -> "."
    [] p = "?" -> "?"
    [] p = "!" -> "!"
    [] p \in {"(", ")", ".)", "?)"} -> IF p = "(" THEN "(" ELSE ")"

\* text.rstrip().endswith(ch) for a punctuation character ch
EndsWith(text, ch) == text # <<>> /\ LastChar(text[Len(text)].post) = ch

\* any(text.rstrip().endswith(p) for p in [".", "!", "?"])
_has_terminal_punctuation(text) == \E ch \in {".", "!", "?"} : EndsWith(text, ch)

\* a question is what ends with a question mark, whatever its first word
_looks_like_question_markOnly(text, tokens) == EndsWith(text, "?")

\* lines 26-33
_looks_like_question(text, tokens) ==
  \/ EndsWith(text, "?")
  \/ tokens # <<>> /\ tokens[1] \in _NON_CLAIM_LEADS

\* lines 35-37
_has_verb_like(tokens) ==
  \E i \in 1..Len(tokens) : tokens[i] \in _ASSERTIVE_VERBS \/ tokens[i] \in _MODAL_VERBS

\* len(tok) of a raw token
TokLen(t) == PunctLen(t.pre) + WordLen(t.word) + PunctLen(t.post)

\* lines 39-54: a digit anywhere in the text, or a raw token after the first
\* that starts with an upper-case letter or is all upper-case
_has_numeric_or_named_like(tokens_raw, text) ==
  \/ \E i \in 1..Len(text) : HasDigit(text[i].word)
  \/ \E i \in 2..Len(tokens_raw) :
       \/ tokens_raw[i].pre = "" /\ StartsUpper(tokens_raw[i].word)
       \/ TokLen(tokens_raw[i]) > 1 /\ AllUpper(tokens_raw[i].word)

\* .strip("\"'()[]{}") at the left end of a run of punctuation
LStripBrackets(p) == IF p = "(" THEN "" ELSE p

\* .strip("\"'()[]{}") at the right end of a run of punctuation
RStripBrackets(p) ==
  CASE p = ")" -> ""
    [] p = ".)" -> "."
    [] p = "?)" -> "?"
    [] OTHER -> p

\* lines 56-59: quotes and brackets around the text are taken off (a text of
\* words keeps at least its words, so the fallback to text.strip() never applies)
_strip_quotes(text) ==
  [i \in 1..Len(text) |->
     Tok(IF i = 1 THEN LStripBrackets(text[i].pre) ELSE text[i].pre,
         text[i].word,
         IF i = Len(text) THEN RStripBrackets(text[i].post) ELSE text[i].post)]

RECURSIVE SumTokLen(_)
SumTokLen(text) ==
  IF text = <<>> THEN 0 ELSE TokLen(Head(text)) + SumTokLen(Tail(text))

\* len(text): the tokens and one blank between neighbours
n_chars(text) == IF text = <<>> THEN 0 ELSE SumTokLen(text) + Len(text) - 1

\* line 96: t.strip(".,;:!?\"'()[]{}").lower() of every raw token
Tokens(tokens_raw) == [i \in 1..Len(tokens_raw) |-> lower(tokens_raw[i].word)]

\* a score without the penalty for a reporting lead
ClaimScore_noPenalty(verbish, has_numeric_or_named, terminal, reporting) ==
  (IF verbish THEN 2 ELSE 0) + (IF has_numeric_or_named THEN 1 ELSE 0)
    + (IF terminal THEN 1 ELSE 0)

\* lines 114-125
ClaimScore(verbish, has_numeric_or_named, terminal, reporting) ==
  (IF verbish THEN 2 ELSE 0) + (IF has_numeric_or_named THEN 1 ELSE 0)
    + (IF terminal THEN 1 ELSE 0) - (IF reporting THEN 1 ELSE 0)

\* lines 63-128
is_claim(sentence) ==
  IF sentence = <<>> THEN FALSE
  ELSE LET text == _strip_quotes(sentence)
           tokens == Tokens(text)
       IN IF n_chars(text) < 6 THEN FALSE
          ELSE IF n_chars(text) > 2000 THEN FALSE
          ELSE IF tokens = <<>> THEN FALSE
          ELSE IF _looks_like_question(text, tokens) THEN FALSE
          ELSE ClaimScore(_has_verb_like(tokens),
                          _has_numeric_or_named_like(text, text),
                          _has_terminal_punctuation(text),
                          tokens[1] \in _REPORTING_VERBS) >= 2

\* an element of a sentence list: a string, or None
Str(text) == [none |-> FALSE, text |-> text]

NoSentence == [none |-> TRUE, text |-> <<>>]

\* s or ""
OrEmpty(s) == IF s.none THEN <<>> ELSE s.text

\* a detector that leaves the missing sentences out
detect_claims_skipMissing(sentences) ==
  LET there == SelectSeq(sentences, LAMBDA s : ~s.none)
  IN [i \in 1..Len(there) |-> is_claim(there[i].text)]

\* lines 138-152
detect_claims(sentences) ==
  IF Len(sentences) = 0 THEN <<>>
  ELSE [i \in 1..Len(sentences) |-> is_claim(OrEmpty(sentences[i]))]

\* -------------------------------------------------------------- the corpus
\* Sentences the segmenter may hand to the pipeline.
Sentences ==
  {"Paris is the capital of France.", "The Earth is flat.", "What time is it?"}

\* a sentence of the corpus as written
Written(sentence) ==
  CASE sentence = "Paris is the capital of France." ->
         <<W("Paris"), W("is"), W("the"), W("capital"), W("of"),
           Tok("", "France", ".")>>
    [] sentence = "The Earth is flat." ->
         <<W("The"), W("Earth"), W("is"), Tok("", "flat", ".")>>
    [] sentence = "What time is it?" ->
         <<W("What"), W("time"), W("is"), Tok("", "it", "?")>>

\* the sentence list as detect_claims gets it
AsList(sentences) == [i \in 1..Len(sentences) |-> Str(Written(sentences[i]))]

ClaimSentences == {s \in Sentences : is_claim(Written(s))}
PlainSentences == Sentences \ ClaimSentences

\* ------------------------------------------------------------ evidence items
\* A normalized evidence item.  sim is the similarity (BM25-lite and Jaccard
\* over the tokens, in tenths) of the item to the claim it is ranked for; it
\* is 0 when claim and item share no token.
ItemFor == [url |-> "https://a", title |-> "Capital", snippet |-> "yes",
            source |-> "bing", sim |-> 20]
ItemAgainst == [url |-> "https://b", title |-> "Myth", snippet |-> "debunked",
                source |-> "bing", sim |-> 10]
ItemWeak == [url |-> "https://c", title |-> "Aside", snippet |-> "",
             source |-> "bing", sim |-> 0]
\* the evidence of Scenario B
ItemScenarioB ==
  [url |-> "https://x", title |-> "Earth is round",
   snippet |-> "Scientific consensus confirms Earth is round, debunking flat-earth myth",
   source |-> "wikipedia", sim |-> 20]
ItemNegated == [url |-> "https://n", title |-> "Earth is not flat", snippet |-> "",
                source |-> "duckduckgo", sim |-> 30]

\* What one call of the selected provider's search does: it raises, or it
\* returns a list of normalized items.  A provider that finds nothing gives
\* the pipeline what a raising one gives it, the empty list of web_search; the
\* composite specification below tells the two apart.
Raise == [raises |-> TRUE, items |-> <<>>]
Returns(items) == [raises |-> FALSE, items |-> items]
ProviderOutcomes ==
  {Raise, Returns(<<ItemAgainst, ItemFor, ItemWeak>>)}

\* a slice that keeps the whole list
Take_all(s, n) == s

\* s[:max(0, n)]
Take(s, n) == SubSeq(s, 1, Min(Len(s), Max(0, n)))

\* ------------------------------------------------------------ evidence ranker
\* the texts above in which a word of _NEGATION_CUES occurs as a substring of
\* the lower-cased text
NegatedSentences == {"The Earth is not flat.", "Earth is not flat"}

HasNegationCue(text) == text \in NegatedSentences

\* the texts above in which a word of _CONTRADICTION_CUES occurs as a
\* substring of the lower-cased text
ContradictionTexts ==
  {"Myth", "debunked",
   "Scientific consensus confirms Earth is round, debunking flat-earth myth"}

HasContradictionCue(text) == text \in ContradictionTexts

\* a stance that looks at the negation cues first
_stance_heuristic_negationFirst(claim, title, snippet) ==
  IF HasNegationCue(claim) # (HasNegationCue(title) \/ HasNegationCue(snippet))
  THEN StanceDisagree
  ELSE IF HasContradictionCue(title) \/ HasContradictionCue(snippet)
  THEN StanceContradict
  ELSE StanceAgree

_stance_heuristic(claim, title, snippet) ==
  IF HasContradictionCue(title) \/ HasContradictionCue(snippet) THEN StanceContradict
  ELSE IF HasNegationCue(claim) = (HasNegationCue(title) \/ HasNegationCue(snippet))
  THEN StanceAgree
  ELSE StanceDisagree

_similarity_score(claim, it) == IF claim = "" THEN 0 ELSE it.sim

ScoreItem(claim, it) ==
  LET sim == _similarity_score(claim, it)
      stance == _stance_heuristic(claim, it.title, it.snippet)
  IN [title |-> it.title, url |-> it.url, snippet |-> it.snippet,
      source |-> it.source, sim |-> it.sim,
      similarity |-> sim,
      stance |-> stance,
      score |-> sim * Abs(stance),
      support_score |-> sim * Max(0, stance),
      refute_score |-> sim * Max(0, -stance)]

_score_items_for_claim(claim, items) ==
  [i \in 1..Len(items) |-> ScoreItem(claim, items[i])]

DirScore(x, dir) == IF dir = "support" THEN x.support_score ELSE x.refute_score

\* the sort key without the similarity
SortsBefore_noTieBreak(x, y, dir) == DirScore(x, dir) > DirScore(y, dir)

\* x sorts strictly before y under key (directional score, similarity), reverse=True
SortsBefore(x, y, dir) ==
  \/ DirScore(x, dir) > DirScore(y, dir)
  \/ DirScore(x, dir) = DirScore(y, dir) /\ x.similarity > y.similarity

RECURSIVE InsertDesc(_, _, _)
InsertDesc(sorted, x, dir) ==
  IF sorted = <<>> THEN <<x>>
  ELSE IF SortsBefore(x, Head(sorted), dir) THEN <<x>> \o sorted
  ELSE <<Head(sorted)>> \o InsertDesc(Tail(sorted), x, dir)

\* list.sort(key=..., reverse=True): stable, equal keys keep their order
RECURSIVE SortDesc(_, _)
SortDesc(items, dir) ==
  IF items = <<>> THEN <<>>
  ELSE InsertDesc(SortDesc(SubSeq(items, 1, Len(items) - 1), dir),
                  items[Len(items)], dir)

RECURSIVE SumDir(_, _)
SumDir(items, dir) ==
  IF items = <<>> THEN 0 ELSE DirScore(Head(items), dir) + SumDir(Tail(items), dir)

_minimalize(items) ==
  [i \in 1..Len(items) |->
     [title |-> items[i].title, url |-> items[i].url, snippet |-> items[i].snippet,
      score |-> items[i].score, source |-> items[i].source]]

\* a label decided on the 0.6 threshold alone
LabelOf_noRatio(support_sum, refute_sum, n_support, n_refute) ==
  IF support_sum >= LabelThreshold /\ n_support > 0 THEN "SUPPORTED"
  ELSE IF refute_sum >= LabelThreshold /\ n_refute > 0 THEN "REFUTED"
  ELSE "NEI"

\* lines 223-229
LabelOf(support_sum, refute_sum, n_support, n_refute) ==
  IF /\ support_sum >= LabelThreshold
     /\ 10 * support_sum >= LabelRatio * refute_sum
     /\ n_support > 0
  THEN "SUPPORTED"
  ELSE IF /\ refute_sum >= LabelThreshold
          /\ 10 * refute_sum >= LabelRatio * support_sum
          /\ n_refute > 0
  THEN "REFUTED"
  ELSE "NEI"

NeiResult ==
  [supporting_evidence |-> <<>>, refuting_evidence |-> <<>>, score |-> 0, label |-> "NEI"]

\* a guard that looks at the claim only
EmptyInput_claimOnly(claim, ev) == claim = ""

\* line 195: not claim or not ev
EmptyInput(claim, ev) == claim = "" \/ ev = <<>>

\* lines 203-245: partition, sort, truncate, sum, label, minimalize
RankScored(scored, top_k_support, top_k_refute) ==
  LET IsSup(x) == x.support_score > 0
      IsRef(x) == x.refute_score > 0
      support_items == SortDesc(SelectSeq(scored, IsSup), "support")
      refute_items == SortDesc(SelectSeq(scored, IsRef), "refute")
      top_support == Take(support_items, top_k_support)
      top_refute == Take(refute_items, top_k_refute)
      support_sum == SumDir(top_support, "support")
      refute_sum == SumDir(top_refute, "refute")
  IN [supporting_evidence |-> _minimalize(top_support),
      refuting_evidence |-> _minimalize(top_refute),
      score |-> support_sum - refute_sum,
      label |-> LabelOf(support_sum, refute_sum, Len(top_support), Len(top_refute))]

rank_and_label_evidence_for_claim(claim, evidence, top_k_support, top_k_refute) ==
  IF EmptyInput(claim, evidence) THEN NeiResult
  ELSE RankScored(_score_items_for_claim(claim, evidence), top_k_support, top_k_refute)

categorize_and_score(claim, evidence, top_k) ==
  rank_and_label_evidence_for_claim(claim, evidence, top_k, top_k)

\* ------------------------------------------------------------------- search
\* Query formulated from a claim: surrounding quotes stripped, whitespace
\* collapsed, one trailing period dropped, at most 20 words.
_formulate_web_query_from_claim(claim) ==
  CASE claim = "Paris is the capital of France." -> "Paris is the capital of France"
    [] claim = "The Earth is flat." -> "The Earth is flat"
    [] claim = "What time is it?" -> "What time is it?"
    [] OTHER -> ""

Queries == {_formulate_web_query_from_claim(s) : s \in Sentences}

\* provider.search(query, top_k) of a backend: [] on an empty query, else it
\* raises or returns its normalized results, stopping at top_k of them
ProviderCall(outcome, query, top_k) ==
  IF query = "" THEN Returns(<<>>)
  ELSE IF outcome.raises THEN Raise
  ELSE Returns(Take(outcome.items, top_k))

\* try: ... except Exception: [] around a provider call
CaughtEmpty(ret) == IF ret.raises THEN Returns(<<>>) ELSE ret

\* web_search, given what provider.search did: [] on an empty query, the
\* provider's list, or [] when the provider raised
web_search(ret, query) ==
  IF query = "" THEN Returns(<<>>) ELSE CaughtEmpty(ret)

search_for_claim(world, claim, top_k) ==
  LET q == _formulate_web_query_from_claim(claim)
  IN IF q = "" THEN <<>>
     ELSE web_search(ProviderCall(world[q], q, top_k), q).items

\* schemas.py 28-33: top_k: int = Field(default=5, ge=1, le=50)
TopKMin == 1
TopKMax == 50
DefaultTopK == 5

\* a request model that accepts any top_k
ValidRequest_any(k) == TRUE

\* the request passes validation and the handler is called
ValidRequest(k) == k >= TopKMin /\ k <= TopKMax

\* top_k = int(getattr(payload, "top_k", 5) or 5)
HandlerTopK(k) == IF k = 0 THEN DefaultTopK ELSE k

\* search_limit = max(1, min(50, top_k))
SearchLimit(top_k) == Max(1, Min(50, top_k))

\* ------------------------------------------------------------ stream events
make_sentence_event(sentence, seq_, progress) ==
  [event |-> "sentence", data |-> sentence, seq |-> seq_, progress |-> progress]

\* an evidence event sent under the score event's type
make_evidence_event_asScore(evidence_, seq_, progress) ==
  [event |-> "score", data |-> evidence_, seq |-> seq_, progress |-> progress]

make_evidence_event(evidence_, seq_, progress) ==
  [event |-> "evidence", data |-> evidence_, seq |-> seq_, progress |-> progress]

\* a score event sent under the evidence event's type
make_score_event_as_evidence(score, seq_, progress) ==
  [event |-> "evidence", data |-> score, seq |-> seq_, progress |-> progress]

make_score_event(score, seq_, progress) ==
  [event |-> "score", data |-> score, seq |-> seq_, progress |-> progress]

make_done_event(summary, seq_) ==
  [event |-> "done", data |-> summary, seq |-> seq_]

make_error_event(message, seq_) ==
  [event |-> "error", data |-> [message |-> message], seq |-> seq_]

\* json.dumps(obj) + "\n": one line per object; {} is the object without keys
EmptyObject == <<>>

_ndjson_line(obj) == [json |-> obj, terminator |-> "\n"]

stream_chunks(items) == [i \in 1..Len(items) |-> _ndjson_line(items[i])]

\* gap = max(0.5, float(heartbeat_interval_sec))
Gap == Max(MinGap, heartbeat_interval_sec)

\* stream_inference passes heartbeat=True
heartbeat == TRUE

\* progress counted from the sentence's zero-based index
Progress_zeroBased(idx, n) == <<idx, Max(1, n)>>

\* progress = (idx + 1) / total, total = max(1, len(raw_sentences)), as a fraction
Progress(idx, n) == <<idx + 1, Max(1, n)>>

SentenceChunk(s, flag) == [text |-> s, is_claim |-> flag]

\* an evidence payload that numbers sentences from 1
EvidencePayload_oneBased(s, idx, ev) ==
  [claim |-> s, sentence_index |-> idx + 1, evidence |-> ev]

EvidencePayload(s, idx, ev) == [claim |-> s, sentence_index |-> idx, evidence |-> ev]

\* a score payload that leaves the label out
ScorePayload_noLabel(s, idx, scored) ==
  [claim |-> s, sentence_index |-> idx,
   supporting_evidence |-> scored.supporting_evidence,
   refuting_evidence |-> scored.refuting_evidence,
   score |-> scored.score, label |-> "NEI"]

\* lines 279-287: the payload of a score event
ScorePayload(s, idx, scored) ==
  [claim |-> s, sentence_index |-> idx,
   supporting_evidence |-> scored.supporting_evidence,
   refuting_evidence |-> scored.refuting_evidence,
   score |-> scored.score, label |-> scored.label]

\* a ClaimResult whose sentence_index counts from one
ClaimResult_oneBased(s, idx, scored) ==
  [claim |-> s, sentence_index |-> idx + 1,
   supporting_evidence |-> scored.supporting_evidence,
   refuting_evidence |-> scored.refuting_evidence,
   score |-> scored.score, label |-> scored.label]

\* lines 127-136: the ClaimResult appended by run_inference
ClaimResult(s, idx, scored) ==
  [claim |-> s, sentence_index |-> idx,
   supporting_evidence |-> scored.supporting_evidence,
   refuting_evidence |-> scored.refuting_evidence,
   score |-> scored.score, label |-> scored.label]

Summary(k) == [status |-> "completed", top_k |-> k]

\* ==================================================================== state
VARIABLES
  raw_sentences,   \* get_sentences(payload.text)
  top_k,           \* payload.top_k
  world,           \* what the selected provider does on each query
  r_pc,            \* run_inference: "new", "loop", "returned", "raised"
  r_idx,           \* run_inference: index of the next sentence of the claim loop
  sentence_chunks, \* run_inference: sentence_chunks
  claim_results,   \* run_inference: claim_results
  w_pc,            \* ndjson_stream: "none", "new", "fetch", "got", "at_hb",
                   \*   "at_item", "finished", "raised", "failed"
  g_pc,            \* _generate: "new", "loop", "at_sentence", "searching",
                   \*   "at_evidence", "at_score", "at_done", "finished", "raised"
  g_idx,           \* _generate: idx of the sentence loop
  seq,             \* _generate: seq
  evidence,        \* _generate: evidence of the current claim
  item,            \* ndjson_stream: item received from the producer
  last_yield_ts,   \* ndjson_stream: last_yield_ts
  now,             \* ndjson_stream: now
  running,         \* a next() call on the response generator is in progress
  connected,       \* the consumer is still reading the response
  clock,           \* time_source()
  waited,          \* how long the consumer has been waiting for the line it asked for
  events,          \* every item _generate has yielded
  out,             \* every line ndjson_stream has yielded
  delivered,       \* the lines yielded while the consumer was still reading
  searches,        \* number of search_for_claim calls issued by _generate
  limits,          \* the top_k of every search_for_claim call of either handler
  c_query,         \* web_search: query
  c_limit,         \* web_search: top_k
  c_kind,          \* the selected provider: "single" backend or "composite"
  c_backends,      \* what each backend does when its search is called
  c_pc,            \* web_search: "new", "in_provider", "provider_done", "done", "raised"
  c_i,             \* CompositeProvider.search: backends gone through so far
  aggregated,      \* CompositeProvider.search: aggregated
  seen_urls,       \* CompositeProvider.search: seen_urls
  c_calls,         \* the backends whose search was called, in call order
  provider_ret,    \* what provider.search did: raised, or returned a list
  c_result,        \* what web_search returned
  env_mode,        \* os.environ: SEARCH_PROVIDER
  env_bing_key,    \* os.environ: BING_API_KEY
  env_search_key,  \* os.environ: SEARCH_API_KEY
  env_endpoint,    \* os.environ: BING_ENDPOINT
  p_used,          \* the provider each web_search call so far has searched with
  n_backend,       \* backend search: which backend ("bing", "duckduckgo", "wikipedia")
  n_raw,           \* backend search: the raw results of the upstream response
  n_topk,          \* backend search: top_k
  n_i,             \* backend search: raw results gone through so far
  n_results,       \* backend search: results
  n_pc,            \* backend search: "idle", "loop", "returned", "composed", "done"
  n_out,           \* what a composite over the backend, then web_search, returns
  k_claim,         \* rank_and_label_evidence_for_claim: claim
  k_evidence,      \* rank_and_label_evidence_for_claim: the evidence list object
  k_missing,       \* rank_and_label_evidence_for_claim: evidence is None
  k_top_support,   \* rank_and_label_evidence_for_claim: top_k_support
  k_top_refute,    \* rank_and_label_evidence_for_claim: top_k_refute
  k_pc,            \* ranker: "idle", "new", "scoring", "returned"
  k_calls,         \* ranker: calls returned so far
  k_stats,         \* ranker: _corpus_stats calls made so far
  k_scored,        \* rank_and_label_evidence_for_claim: scored
  k_first,         \* what the first call returned
  k_result,        \* what the latest call returned
  d_sentences,     \* detect_claims: sentences
  d_pc,            \* detect_claims: "idle", "called", "returned", "alone"
  d_flags,         \* what detect_claims(sentences) returned
  d_k,             \* the sentence then passed on its own (0: none yet)
  d_alone,         \* what detect_claims returned for that one sentence
  a_html,          \* DuckDuckGoProvider.search: html (resp.text), a string of characters
  a_topk,          \* DuckDuckGoProvider.search: top_k
  a_pc,            \* "idle", "fetching", "loop", "extracted", "returned"
  a_pos,           \* the anchor loop: pos
  a_anchors,       \* the anchor loop: anchors
  a_results,       \* what search returned
  h_authorization, \* the Authorization header of the request (None when missing)
  h_allow_no_auth, \* os.environ: ALLOW_NO_AUTH
  h_api_token,     \* os.environ: API_TOKEN
  h_pc,            \* "idle", "new", "checked", "handler", "denied"
  h_user           \* what auth_required did: a user context, or the 401 it raised

reqVars == <<raw_sentences, top_k, world>>
runVars == <<r_pc, r_idx, sentence_chunks, claim_results>>
genVars == <<g_pc, g_idx, seq, evidence, events, searches>>
wrapVars == <<w_pc, item, last_yield_ts, now, out, delivered>>
envVars == <<running, connected, clock, waited>>
streamVars == <<genVars, wrapVars, envVars>>
pipeVars == <<reqVars, runVars, streamVars, limits>>
compVars == <<c_query, c_limit, c_kind, c_backends, c_pc, c_i, aggregated,
              seen_urls, c_calls, provider_ret, c_result>>
provVars == <<env_mode, env_bing_key, env_search_key, env_endpoint, p_used>>
normVars == <<n_backend, n_raw, n_topk, n_i, n_results, n_pc, n_out>>
rankVars == <<k_claim, k_evidence, k_missing, k_top_support, k_top_refute, k_pc, k_calls,
              k_stats, k_scored, k_first, k_result>>
detVars == <<d_sentences, d_pc, d_flags, d_k, d_alone>>
ddgVars == <<a_html, a_topk, a_pc, a_pos, a_anchors, a_results>>
authVars == <<h_authorization, h_allow_no_auth, h_api_token, h_pc, h_user>>
moreVars == <<detVars, ddgVars, authVars>>
otherVars == <<provVars, normVars, rankVars, moreVars>>
oldVars == <<pipeVars, compVars, provVars, normVars, rankVars>>

\* the top_k of a request body: in range, or just outside either end
RequestTopKs == (0..MaxTopK) \cup {TopKMax + 1}

SentenceLists == UNION {[1..k -> Sentences] : k \in 0..MaxSent}

AskedQueries(sentences) ==
  {_formulate_web_query_from_claim(sentences[i]) :
     i \in {j \in 1..Len(sentences) : is_claim(Written(sentences[j]))}}

\* no web_search call is looked at on its own
CompIdle ==
  /\ c_query = "" /\ c_limit = 1 /\ c_kind = "composite" /\ c_backends = <<>>
  /\ c_pc = "idle" /\ c_i = 0 /\ aggregated = <<>> /\ seen_urls = {}
  /\ c_calls = <<>> /\ provider_ret = Returns(<<>>) /\ c_result = <<>>

\* the environment is not looked at
ProvIdle ==
  /\ env_mode = "" /\ env_bing_key = "" /\ env_search_key = ""
  /\ env_endpoint = "" /\ p_used = <<>>

\* no backend search is looked at on its own
NormIdle ==
  /\ n_backend = "" /\ n_raw = <<>> /\ n_topk = 1 /\ n_i = 0
  /\ n_results = <<>> /\ n_pc = "idle" /\ n_out = <<>>

\* no ranker call is looked at on its own
RankIdle ==
  /\ k_claim = "" /\ k_evidence = <<>> /\ k_missing = FALSE
  /\ k_top_support = 0 /\ k_top_refute = 0
  /\ k_pc = "idle" /\ k_calls = 0 /\ k_stats = 0 /\ k_scored = <<>>
  /\ k_first = <<>> /\ k_result = <<>>

DetIdle ==
  /\ d_sentences = <<>> /\ d_pc = "idle" /\ d_flags = <<>>
  /\ d_k = 0 /\ d_alone = <<>>

DdgIdle ==
  /\ a_html = <<>> /\ a_topk = 1 /\ a_pc = "idle" /\ a_pos = 0
  /\ a_anchors = <<>> /\ a_results = <<>>

AuthIdle ==
  /\ h_authorization = "" /\ h_allow_no_auth = "" /\ h_api_token = ""
  /\ h_pc = "idle" /\ h_user = <<>>

MoreIdle == DetIdle /\ DdgIdle /\ AuthIdle

\* The request has arrived; neither handler has done anything yet.  The
\* provider's behaviour is drawn for the queries this request asks.
PipelineInit ==
  /\ CompIdle /\ ProvIdle /\ NormIdle /\ RankIdle /\ MoreIdle
  /\ raw_sentences \in SentenceLists
  /\ top_k \in RequestTopKs
  /\ world \in [Queries -> ProviderOutcomes]
  /\ \A q \in Queries \ AskedQueries(raw_sentences) : world[q] = Raise
  /\ r_pc = "new" /\ r_idx = 0
  /\ sentence_chunks = <<>> /\ claim_results = <<>>
  /\ w_pc = "none" /\ g_pc = "new" /\ g_idx = 0 /\ seq = 0
  /\ evidence = <<>> /\ item = EmptyObject
  /\ last_yield_ts = 0 /\ now = 0
  /\ running = FALSE /\ connected = TRUE
  /\ clock = 0 /\ waited = 0
  /\ events = <<>> /\ out = <<>> /\ delivered = <<>> /\ searches = 0
  /\ limits = <<>>

claim_flags == detect_claims(AsList(raw_sentences))

NSent == Len(raw_sentences)

\* ------------------------------------------------------------ run_inference
\* lines 59-100: segment, detect, build the sentence chunks
RunStart ==
  /\ r_pc = "new" /\ ValidRequest(top_k)
  /\ sentence_chunks' =
       [i \in 1..NSent |-> SentenceChunk(raw_sentences[i], claim_flags[i])]
  /\ r_pc' = "loop"
  /\ UNCHANGED <<otherVars, compVars, reqVars, limits, r_idx, claim_results, streamVars>>

\* the request body fails validation: 422, run_inference is not called
RunReject ==
  /\ r_pc = "new" /\ ~ValidRequest(top_k)
  /\ r_pc' = "rejected"
  /\ UNCHANGED <<otherVars, compVars, reqVars, limits, r_idx, sentence_chunks,
                 claim_results, streamVars>>

\* lines 104-136: one iteration of the claim loop
RunClaimStep ==
  /\ r_pc = "loop" /\ r_idx < NSent
  /\ LET s == raw_sentences[r_idx + 1]
         k == HandlerTopK(top_k)
         ev == search_for_claim(world, s, SearchLimit(k))
         scored == categorize_and_score(s, ev, k)
     IN IF claim_flags[r_idx + 1]
        THEN /\ claim_results' = Append(claim_results, ClaimResult(s, r_idx, scored))
             /\ limits' = Append(limits, SearchLimit(k))
        ELSE UNCHANGED <<claim_results, limits>>
  /\ r_idx' = r_idx + 1
  /\ UNCHANGED <<otherVars, compVars, reqVars, r_pc, sentence_chunks, streamVars>>

\* lines 118-125: categorize_and_score raises; time_block logs and re-raises,
\* nothing in run_inference catches it
RunClaimRaise ==
  /\ r_pc = "loop" /\ r_idx < NSent /\ claim_flags[r_idx + 1]
  /\ r_pc' = "raised"
  /\ UNCHANGED <<otherVars, compVars, reqVars, limits, r_idx, sentence_chunks, claim_results, streamVars>>

\* lines 138-173
RunReturn ==
  /\ r_pc = "loop" /\ r_idx = NSent
  /\ r_pc' = "returned"
  /\ UNCHANGED <<otherVars, compVars, reqVars, limits, r_idx, sentence_chunks, claim_results, streamVars>>

\* --------------------------------------------------------- stream_inference
\* lines 210-230 and 321-326: segment, detect, hand _generate() wrapped by
\* ndjson_stream to the StreamingResponse.  The /stream request is served after
\* the /run request of the same payload has returned.
StreamStart ==
  /\ r_pc = "returned" /\ w_pc = "none"
  /\ w_pc' = "new"
  /\ UNCHANGED <<otherVars, compVars, reqVars, limits, runVars, genVars, item, last_yield_ts, now, out, delivered, envVars>>

\* lines 227-230: get_sentences or detect_claims raises; time_block re-raises
\* and the handler fails before any response body exists
StreamStartRaise ==
  /\ r_pc = "returned" /\ w_pc = "none"
  /\ w_pc' = "failed"
  /\ UNCHANGED <<otherVars, compVars, reqVars, limits, runVars, genVars, item, last_yield_ts, now, out, delivered, envVars>>

\* the same body sent to /stream fails validation the same way
StreamReject ==
  /\ r_pc = "rejected" /\ w_pc = "none"
  /\ w_pc' = "rejected"
  /\ UNCHANGED <<otherVars, compVars, reqVars, limits, runVars, genVars, item,
                 last_yield_ts, now, out, delivered, envVars>>

StreamOpen == w_pc \in {"new", "fetch", "got", "at_hb", "at_item"}

\* the server asks the response generator for its next line
Pull ==
  /\ connected /\ ~running
  /\ w_pc \in {"new", "at_hb", "at_item"}
  /\ running' = TRUE
  /\ waited' = 0
  /\ UNCHANGED <<otherVars, compVars, reqVars, limits, runVars, genVars, wrapVars, connected, clock>>

\* the consumer goes away; a next() call in progress runs to its next yield
Disconnect ==
  /\ connected /\ StreamOpen
  /\ connected' = FALSE
  /\ UNCHANGED <<otherVars, compVars, reqVars, limits, runVars, genVars, wrapVars, running, clock, waited>>

\* Time passes while a retrieval is in flight and while the consumer is busy
\* with the line it got.  The clock is read at lines 136 and 149 only, and
\* between two reads there is always one of these two moments.
Tick ==
  /\ \/ running /\ g_pc = "searching"
     \/ ~running /\ connected /\ w_pc = "at_item"
  /\ clock + TickLen <= MaxClock
  /\ clock' = clock + TickLen
  /\ waited' = IF running THEN waited + TickLen ELSE waited
  /\ UNCHANGED <<otherVars, compVars, reqVars, limits, runVars, genVars, wrapVars, running, connected>>

\* ------------------------------------------------------------- ndjson_stream
\* line 136: first next() on the wrapper
NdjsonStart ==
  /\ running /\ w_pc = "new"
  /\ last_yield_ts' = clock
  /\ w_pc' = "fetch"
  /\ UNCHANGED <<otherVars, compVars, reqVars, limits, runVars, genVars, item, now, out, delivered, envVars>>

\* a yield of ndjson_stream; the line reaches the consumer if it is still there
Emit(line) ==
  /\ out' = Append(out, line)
  /\ delivered' = IF connected THEN Append(delivered, line) ELSE delivered

HeartbeatDue(now_ts, last_ts) == heartbeat /\ (now_ts - last_ts) >= Gap

\* lines 149-153: an item has arrived; read the clock, yield a heartbeat if one
\* is due, else yield the item's line
NdjsonGot ==
  /\ running /\ w_pc = "got"
  /\ now' = clock
  /\ IF HeartbeatDue(clock, last_yield_ts)
     THEN /\ last_yield_ts' = clock
          /\ Emit(_ndjson_line(EmptyObject))
          /\ w_pc' = "at_hb"
     ELSE /\ last_yield_ts' = last_yield_ts
          /\ Emit(_ndjson_line(item))
          /\ w_pc' = "at_item"
  /\ running' = FALSE /\ waited' = 0
  /\ UNCHANGED <<otherVars, compVars, reqVars, limits, runVars, genVars, item, connected, clock>>

\* a wrapper that yields the heartbeat instead of the item, not before it
NdjsonAfterHeartbeat_dropItem ==
  /\ running /\ w_pc = "at_hb"
  /\ w_pc' = "at_item"
  /\ running' = FALSE /\ waited' = 0
  /\ UNCHANGED <<otherVars, compVars, reqVars, limits, runVars, genVars, item, last_yield_ts, now,
                 out, delivered, connected, clock>>

\* line 153 after the heartbeat of line 152: yield the item's line
NdjsonAfterHeartbeat ==
  /\ running /\ w_pc = "at_hb"
  /\ Emit(_ndjson_line(item))
  /\ w_pc' = "at_item"
  /\ running' = FALSE /\ waited' = 0
  /\ UNCHANGED <<otherVars, compVars, reqVars, limits, runVars, genVars, item, last_yield_ts, now,
                 connected, clock>>

\* line 154, then back to line 148 for the next item
NdjsonAfterItem ==
  /\ running /\ w_pc = "at_item"
  /\ last_yield_ts' = now
  /\ w_pc' = "fetch"
  /\ UNCHANGED <<otherVars, compVars, reqVars, limits, runVars, genVars, item, now, out, delivered, envVars>>

\* -------------------------------------------------- stream_inference._generate
\* The producer runs only while ndjson_stream waits in `for item in items`.
Producing == running /\ w_pc = "fetch"

\* a yield of _generate hands the event to ndjson_stream
Yield(evt) ==
  /\ item' = evt
  /\ events' = Append(events, evt)
  /\ w_pc' = "got"

\* seq left as it is after a yield
NextSeq_stuck(n) == n

\* seq += 1 after a yield
NextSeq(n) == n + 1

\* lines 237-243: next sentence of the loop, yield its sentence event
GenSentence ==
  /\ Producing /\ g_pc \in {"new", "loop"} /\ g_idx < NSent
  /\ LET s == raw_sentences[g_idx + 1]
         chunk == SentenceChunk(s, claim_flags[g_idx + 1])
     IN Yield(make_sentence_event(chunk, seq, Progress(g_idx, NSent)))
  /\ g_pc' = "at_sentence"
  /\ UNCHANGED <<otherVars, compVars, reqVars, limits, runVars, g_idx, seq, evidence, searches,
                 last_yield_ts, now, out, delivered, envVars>>

\* a retrieval for every sentence, claim or not
Retrieves_always(flag) == TRUE

\* is a retrieval issued for a sentence with this flag (lines 246-247)
Retrieves(flag) == flag

\* lines 244-258: resumed after the sentence event; a non-claim goes on to the
\* next sentence, a claim calls search_for_claim
GenAfterSentence ==
  /\ Producing /\ g_pc = "at_sentence"
  /\ seq' = NextSeq(seq)
  /\ IF Retrieves(claim_flags[g_idx + 1])
     THEN /\ g_pc' = "searching"
          /\ searches' = searches + 1
          /\ limits' = Append(limits, SearchLimit(HandlerTopK(top_k)))
          /\ g_idx' = g_idx
     ELSE /\ g_pc' = "loop"
          /\ searches' = searches
          /\ limits' = limits
          /\ g_idx' = g_idx + 1
  /\ UNCHANGED <<otherVars, compVars, reqVars, runVars, evidence, events, wrapVars, envVars>>

\* lines 258-266: search_for_claim returns, yield the evidence event
GenEvidence ==
  /\ Producing /\ g_pc = "searching"
  /\ LET s == raw_sentences[g_idx + 1]
         ev == search_for_claim(world, s, SearchLimit(HandlerTopK(top_k)))
     IN /\ evidence' = ev
        /\ Yield(make_evidence_event(EvidencePayload(s, g_idx, ev), seq,
                                     Progress(g_idx, NSent)))
  /\ g_pc' = "at_evidence"
  /\ UNCHANGED <<otherVars, compVars, reqVars, limits, runVars, g_idx, seq, searches,
                 last_yield_ts, now, out, delivered, envVars>>

\* lines 267-288: resumed after the evidence event; score, yield the score event
GenScore ==
  /\ Producing /\ g_pc = "at_evidence"
  /\ seq' = NextSeq(seq)
  /\ LET s == raw_sentences[g_idx + 1]
         scored == categorize_and_score(s, evidence, HandlerTopK(top_k))
     IN Yield(make_score_event(ScorePayload(s, g_idx, scored), NextSeq(seq),
                               Progress(g_idx, NSent)))
  /\ g_pc' = "at_score"
  /\ UNCHANGED <<otherVars, compVars, reqVars, limits, runVars, g_idx, evidence, searches,
                 last_yield_ts, now, out, delivered, envVars>>

\* lines 270-277: categorize_and_score raises; time_block re-raises, neither
\* _generate nor ndjson_stream catches it, the response body just ends
GenScoreRaise ==
  /\ Producing /\ g_pc = "at_evidence"
  /\ seq' = NextSeq(seq)
  /\ g_pc' = "raised"
  /\ w_pc' = "raised"
  /\ running' = FALSE /\ waited' = 0
  /\ UNCHANGED <<otherVars, compVars, reqVars, limits, runVars, g_idx, evidence, events, searches,
                 item, last_yield_ts, now, out, delivered, connected, clock>>

\* line 289: resumed after the score event, on to the next sentence
GenAfterScore ==
  /\ Producing /\ g_pc = "at_score"
  /\ seq' = NextSeq(seq)
  /\ g_idx' = g_idx + 1
  /\ g_pc' = "loop"
  /\ UNCHANGED <<otherVars, compVars, reqVars, limits, runVars, evidence, events, searches, wrapVars, envVars>>

\* lines 291-308: the loop is over, yield the done event
GenDone ==
  /\ Producing /\ g_pc \in {"new", "loop"} /\ g_idx = NSent
  /\ Yield(make_done_event(Summary(HandlerTopK(top_k)), seq))
  /\ g_pc' = "at_done"
  /\ UNCHANGED <<otherVars, compVars, reqVars, limits, runVars, g_idx, seq, evidence, searches,
                 last_yield_ts, now, out, delivered, envVars>>

\* lines 310-318: resumed after done; _generate returns and the for loop of
\* ndjson_stream ends
GenFinish ==
  /\ Producing /\ g_pc = "at_done"
  /\ g_pc' = "finished"
  /\ w_pc' = "finished"
  /\ running' = FALSE /\ waited' = 0
  /\ UNCHANGED <<otherVars, compVars, reqVars, limits, runVars, g_idx, seq, evidence, events, searches,
                 item, last_yield_ts, now, out, delivered, connected, clock>>

PipelineNext ==
  \/ RunStart \/ RunReject \/ RunClaimStep \/ RunClaimRaise \/ RunReturn
  \/ StreamStart \/ StreamStartRaise \/ StreamReject
  \/ Pull \/ Disconnect \/ Tick
  \/ NdjsonStart \/ NdjsonGot \/ NdjsonAfterHeartbeat \/ NdjsonAfterItem
  \/ GenSentence \/ GenAfterSentence \/ GenEvidence \/ GenScore \/ GenScoreRaise
  \/ GenAfterScore \/ GenDone \/ GenFinish

vars == <<pipeVars, compVars, otherVars>>

Spec == PipelineInit /\ [][PipelineNext]_vars

\* =============================================================== properties
Positions(evts, kind) == {i \in 1..Len(evts) : evts[i].event = kind}

Count(evts, kind) == Cardinality(Positions(evts, kind))

NClaims == Cardinality({i \in 1..NSent : raw_sentences[i] \in ClaimSentences})

IsHeartbeat(line) == line.json = EmptyObject

IsReal(line) == ~IsHeartbeat(line)

RealLines(lines) == SelectSeq(lines, IsReal)

IsPrefix(a, b) == Len(a) <= Len(b) /\ SubSeq(b, 1, Len(a)) = a

\* position in evts of the sentence event of sentence index i (0 if not yet there)
SentencePos(evts, i) ==
  LET ps == Positions(evts, "sentence")
  IN IF Cardinality(ps) <= i THEN 0
     ELSE CHOOSE p \in ps : Cardinality({q \in ps : q < p}) = i

\* C1: once the generator has run to its end, its event sequence holds exactly
\* k sentence events, m evidence events, m score events and one done event,
\* and the done event is the last one.
C1_StreamCounts ==
  g_pc = "finished" =>
    /\ Count(events, "sentence") = NSent
    /\ Count(events, "evidence") = NClaims
    /\ Count(events, "score") = NClaims
    /\ Count(events, "done") = 1
    /\ events[Len(events)].event = "done"

C1_Witness ==
  /\ g_pc = "finished" /\ NSent = 2 /\ NClaims = 1
  /\ Count(events, "score") = 1

\* C2: the i-th event of a stream carries seq = i - 1 (first 0, then +1 each,
\* never reset), the real lines sent carry strictly increasing seq, and the
\* done event carries seq = k + 2m.
C2_SeqNumbers ==
  /\ \A i \in 1..Len(events) : events[i].seq = i - 1
  /\ LET real == RealLines(out)
     IN \A i \in 1..Len(real) : real[i].json.seq = i - 1
  /\ \A i \in Positions(events, "done") : events[i].seq = NSent + 2 * NClaims

C2_Witness ==
  /\ Count(events, "done") = 1 /\ NClaims = 2
  /\ events[Len(events)].seq = 6
  /\ \E i \in 1..Len(out) : IsHeartbeat(out[i])

\* C3: every evidence event follows the sentence event of its sentence_index,
\* every score event follows the evidence event of the same sentence_index,
\* both name a sentence flagged as claim, and evidence (and score) events
\* appear in increasing sentence_index order however long retrievals take.
C3_ClaimOrder ==
  LET ev == Positions(events, "evidence")
      sc == Positions(events, "score")
  IN
  /\ \A p \in ev :
       LET i == events[p].data.sentence_index
       IN /\ i \in 0..(NSent - 1) /\ raw_sentences[i + 1] \in ClaimSentences
          /\ events[p].data.claim = raw_sentences[i + 1]
          /\ SentencePos(events, i) \in 1..(p - 1)
  /\ \A p \in sc :
       LET i == events[p].data.sentence_index
       IN /\ events[p].data.claim = raw_sentences[i + 1]
          /\ \E q \in ev : q < p /\ events[q].data.sentence_index = i
  /\ \A p, q \in ev :
       p < q => events[p].data.sentence_index < events[q].data.sentence_index
  /\ \A p, q \in sc :
       p < q => events[p].data.sentence_index < events[q].data.sentence_index

C3_Witness ==
  /\ Count(events, "score") = 2
  /\ clock >= 2 * TickLen
  /\ \E p \in Positions(events, "score") : events[p].data.sentence_index = 1

\* C4: a stream that has ended has ended with a done or an error event; when
\* the pipeline raised, the consumer got exactly one error event, as the last.
C4_TerminalEvent ==
  /\ w_pc \in {"finished", "raised", "failed"} =>
       /\ out # <<>>
       /\ IsReal(out[Len(out)])
       /\ out[Len(out)].json.event \in {"done", "error"}
  /\ w_pc \in {"raised", "failed"} =>
       /\ Cardinality({i \in 1..Len(out) :
                         IsReal(out[i]) /\ out[i].json.event = "error"}) = 1
       /\ out # <<>> /\ IsReal(out[Len(out)]) /\ out[Len(out)].json.event = "error"

HasResult(results, i) == \E j \in 1..Len(results) : results[j].sentence_index = i

NeiEmpty(r) ==
  r.label = "NEI" /\ r.supporting_evidence = <<>> /\ r.refuting_evidence = <<>>

ProviderFails(i) == world[_formulate_web_query_from_claim(raw_sentences[i + 1])].raises

ScoreData(evts) == [j \in 1..Len(SelectSeq(evts, LAMBDA e : e.event = "score")) |->
                      SelectSeq(evts, LAMBDA e : e.event = "score")[j].data]

\* C5: when a handler is over, every claim sentence has its result (aggregate:
\* a ClaimResult; stream: a score event), also when another claim's retrieval
\* or ranking failed, and a claim whose provider failed is NEI with no evidence.
C5_PerClaimIsolation ==
  /\ r_pc \in {"returned", "raised"} =>
       \A i \in 0..(NSent - 1) : claim_flags[i + 1] =>
         /\ HasResult(claim_results, i)
         /\ \A j \in 1..Len(claim_results) :
              (claim_results[j].sentence_index = i /\ ProviderFails(i))
                => NeiEmpty(claim_results[j])
  /\ w_pc \in {"finished", "raised"} =>
       \A i \in 0..(NSent - 1) : claim_flags[i + 1] =>
         /\ HasResult(ScoreData(events), i)
         /\ \A j \in 1..Len(ScoreData(events)) :
              (ScoreData(events)[j].sentence_index = i /\ ProviderFails(i))
                => NeiEmpty(ScoreData(events)[j])

\* C6: while the consumer waits for a line, ndjson_stream lets no more than the
\* heartbeat interval plus one clock step pass without yielding one.
C6_HeartbeatWhileWaiting ==
  running => waited <= Gap + TickLen

\* C7: the lines sent, heartbeats removed, are the lines stream_chunks makes
\* of the same events: the same ones in the same order, at most the item in
\* hand still to come, all of them once the stream has finished; a heartbeat
\* is the empty object.
C7_HeartbeatTransparent ==
  LET real == RealLines(out)
      chunks == stream_chunks(events)
      made == {events[j] : j \in 1..Len(events)}
  IN
  /\ IsPrefix(real, chunks)
  /\ Len(real) >= Len(events) - 1
  /\ w_pc \in {"at_item", "finished"} => real = chunks
  /\ \A i \in 1..Len(out) : IsHeartbeat(out[i]) \/ out[i].json \in made

C7_Witness ==
  /\ w_pc = "finished" /\ Len(events) >= 4
  /\ \E i \in 2..Len(out) : IsHeartbeat(out[i]) /\ out[i - 1].json.event = "evidence"

DeliveredClaimSentences ==
  Cardinality({i \in 1..Len(delivered) :
                 /\ IsReal(delivered[i])
                 /\ delivered[i].json.event = "sentence"
                 /\ delivered[i].json.data.is_claim})

\* C8: the retrievals issued never outnumber the claim sentences whose
\* sentence event the consumer has received; once the consumer is gone and the
\* call in progress has reached its yield, no retrieval starts and no event is
\* made; lines already sent stay as they are.
C8_NoWorkAfterDisconnect ==
  /\ [](searches <= DeliveredClaimSentences)
  /\ [][(~connected /\ ~running) => (searches' = searches /\ events' = events)]_vars
  /\ [][IsPrefix(out, out') /\ IsPrefix(delivered, delivered')]_vars

C8_Witness ==
  /\ ~connected /\ ~running
  /\ searches = 1 /\ NClaims = 2
  /\ Len(delivered) < Len(out)

\* clamp(k, lo, hi), written out
Clamp(k, lo, hi) == IF k < lo THEN lo ELSE IF k > hi THEN hi ELSE k

\* both evidence lists of a ClaimResult or of a score event's data
WithinTopK(d, k) ==
  Len(d.supporting_evidence) <= k /\ Len(d.refuting_evidence) <= k

\* C20: every limit handed to search_for_claim by either handler is
\* clamp(topK, 1, 50) of the request's topK and is never 0; a request with
\* topK = 0 never gets past the input boundary unless it was clamped to 1 (here
\* it is rejected: no retrieval, no result, no event); and the supporting and
\* refuting lists of every ClaimResult and of every score event are no longer
\* than the requested top_k.
C20_LimitAndTopK ==
  /\ \A i \in 1..Len(limits) : limits[i] = Clamp(top_k, 1, 50) /\ limits[i] # 0
  /\ top_k = 0 =>
       \/ /\ r_pc \in {"new", "rejected"} /\ w_pc \in {"none", "rejected"}
          /\ limits = <<>> /\ claim_results = <<>> /\ events = <<>>
       \/ \A i \in 1..Len(limits) : limits[i] = 1
  /\ \A j \in 1..Len(claim_results) : WithinTopK(claim_results[j], top_k)
  /\ \A j \in 1..Len(events) :
       events[j].event = "score" => WithinTopK(events[j].data, top_k)

C20_Witness ==
  /\ top_k = 2 /\ g_pc = "finished" /\ r_pc = "returned"
  /\ limits = <<2, 2>>
  /\ \E j \in 1..Len(events) :
       /\ events[j].event = "score"
       /\ Len(events[j].data.supporting_evidence) = 1
       /\ Len(events[j].data.refuting_evidence) = 1
  /\ \E j \in 1..Len(claim_results) :
       Len(claim_results[j].supporting_evidence) = 1

\* the ClaimResults that name sentence index i
ResultsOf(results, i) == {j \in 1..Len(results) : results[j].sentence_index = i}

\* C21: in the aggregate result the sentences are the segmented sentences in
\* order; every ClaimResult names, by sentence_index, the sentence whose text is
\* its claim and whose is_claim is true; the ClaimResults are in strictly
\* increasing sentence_index order; a sentence flagged as claim has exactly one
\* ClaimResult and a sentence not flagged has none.
C21_AggregateConsistent ==
  r_pc = "returned" =>
    /\ Len(sentence_chunks) = NSent
    /\ \A i \in 1..NSent : sentence_chunks[i].text = raw_sentences[i]
    /\ \A j \in 1..Len(claim_results) :
         LET i == claim_results[j].sentence_index
         IN /\ i \in 0..(Len(sentence_chunks) - 1)
            /\ sentence_chunks[i + 1].text = claim_results[j].claim
            /\ sentence_chunks[i + 1].is_claim = TRUE
    /\ \A j, l \in 1..Len(claim_results) :
         j < l => claim_results[j].sentence_index < claim_results[l].sentence_index
    /\ \A i \in 1..Len(sentence_chunks) :
         Cardinality(ResultsOf(claim_results, i - 1)) =
           IF sentence_chunks[i].is_claim THEN 1 ELSE 0

C21_Witness ==
  /\ r_pc = "returned" /\ NSent = 2
  /\ ~sentence_chunks[1].is_claim /\ sentence_chunks[2].is_claim
  /\ Len(claim_results) = 1 /\ claim_results[1].sentence_index = 1

\* the is_claim flags of the sentence events, in stream order
SentenceFlags(evts) ==
  [j \in 1..Len(SelectSeq(evts, LAMBDA e : e.event = "sentence")) |->
     SelectSeq(evts, LAMBDA e : e.event = "sentence")[j].data.is_claim]

\* C22: for the same sentences, top_k and provider answers, the score events
\* of the stream carry, in order, the ClaimResults of the aggregate run (all of
\* them once the stream has run to its end, the first ones before), and the
\* sentence events carry the is_claim flags of the aggregate result's sentences.
C22_StreamEqualsAggregate ==
  r_pc = "returned" =>
    /\ IsPrefix(ScoreData(events), claim_results)
    /\ g_pc = "finished" => ScoreData(events) = claim_results
    /\ \A i \in 1..Len(SentenceFlags(events)) :
         SentenceFlags(events)[i] = sentence_chunks[i].is_claim
    /\ g_pc = "finished" => Len(SentenceFlags(events)) = Len(sentence_chunks)

C22_Witness ==
  /\ g_pc = "finished" /\ NSent = 2 /\ NClaims = 1
  /\ Len(claim_results) = 1
  /\ claim_results[1].label # "NEI"
  /\ ScoreData(events)[1].supporting_evidence # <<>>

\* C26 as stated: every sentence event comes before every evidence and every
\* score event.
C26_SentencesFirst ==
  \A p, q \in 1..Len(events) :
    (events[p].event \in {"evidence", "score"} /\ events[q].event = "sentence")
      => q < p

\* C26, amended: the sentence events come one per sentence, in order; the
\* evidence event of a claim sentence comes right after that sentence's own
\* sentence event and its score event right after the evidence event, before
\* the next sentence's sentence event; done is the last event and comes after
\* all the sentence events.
C26_Interleaved ==
  LET sp == Positions(events, "sentence")
  IN
  /\ Cardinality(sp) <= NSent
  /\ \A p \in sp :
       /\ events[p].data.text = raw_sentences[Cardinality({q \in sp : q < p}) + 1]
       /\ (events[p].data.is_claim /\ p < Len(events)) => events[p + 1].event = "evidence"
  /\ \A p \in Positions(events, "evidence") :
       /\ p > 1 /\ events[p - 1].event = "sentence"
       /\ Cardinality({q \in sp : q < p - 1}) = events[p].data.sentence_index
       /\ p < Len(events) => events[p + 1].event = "score"
  /\ \A p \in Positions(events, "score") :
       /\ p > 1 /\ events[p - 1].event = "evidence"
       /\ events[p - 1].data.sentence_index = events[p].data.sentence_index
  /\ \A p \in Positions(events, "done") :
       p = Len(events) /\ Cardinality(sp) = NSent

C26_Witness ==
  /\ g_pc = "finished" /\ Len(events) = 7
  /\ [p \in 1..7 |-> events[p].event] =
       <<"sentence", "evidence", "score", "sentence", "evidence", "score", "done">>

\* the events that carry a progress value
WithProgress(evts) == {p \in 1..Len(evts) : evts[p].event \in {"sentence", "evidence", "score"}}

\* a / b <= c / d for fractions <<a, b>> and <<c, d>> with positive denominators
FracLeq(x, y) == x[1] * y[2] <= y[1] * x[2]

FracEq(x, y) == x[1] * y[2] = y[1] * x[2]

\* C27: the sentence event of sentence index i carries progress (i + 1) / k, k
\* being the number of sentences; every progress value is in [0, 1]; progress
\* never decreases along the stream; the evidence and score events of a claim
\* carry the progress of that claim's sentence event.
C27_Progress ==
  LET sp == Positions(events, "sentence")
      wp == WithProgress(events)
  IN
  /\ \A p \in sp :
       FracEq(events[p].progress, <<Cardinality({q \in sp : q < p}) + 1, NSent>>)
  /\ \A p \in wp :
       /\ events[p].progress[2] > 0
       /\ FracLeq(<<0, 1>>, events[p].progress)
       /\ FracLeq(events[p].progress, <<1, 1>>)
  /\ \A p, q \in wp :
       p < q => FracLeq(events[p].progress, events[q].progress)
  /\ \A p \in Positions(events, "evidence") \cup Positions(events, "score") :
       LET own == SentencePos(events, events[p].data.sentence_index)
       IN own # 0 /\ FracEq(events[p].progress, events[own].progress)

C27_Witness ==
  /\ g_pc = "finished" /\ NSent = 2 /\ Len(events) = 5
  /\ events[3].event = "score" /\ events[3].progress = <<1, 2>>
  /\ events[4].event = "sentence" /\ events[4].progress = <<2, 2>>

\* ====================================================== composite provider
Urls == {"https://a", "https://b"}

UrlLists == UNION {[1..n -> Urls] : n \in 0..MaxResults}

\* the results backend b returns for a list of urls
BackendItems(b, urls) ==
  [j \in 1..Len(urls) |-> [url |-> urls[j], title |-> "t", source |-> b]]

BackendOutcomes(b) == {Raise} \cup {Returns(BackendItems(b, u)) : u \in UrlLists}

BackendLists ==
  UNION {{bs \in [1..n -> UNION {BackendOutcomes(b) : b \in 1..n}] :
            \A b \in 1..n : bs[b] \in BackendOutcomes(b)} : n \in 0..MaxBackends}

PipeIdle ==
  /\ raw_sentences = <<>> /\ top_k = 1 /\ world = [q \in Queries |-> Raise]
  /\ r_pc = "idle" /\ r_idx = 0
  /\ sentence_chunks = <<>> /\ claim_results = <<>>
  /\ w_pc = "none" /\ g_pc = "new" /\ g_idx = 0 /\ seq = 0
  /\ evidence = <<>> /\ item = EmptyObject
  /\ last_yield_ts = 0 /\ now = 0
  /\ running = FALSE /\ connected = TRUE
  /\ clock = 0 /\ waited = 0
  /\ events = <<>> /\ out = <<>> /\ delivered = <<>> /\ searches = 0
  /\ limits = <<>>

\* web_search(query, top_k) is about to be called; the selected provider is one
\* backend or a composite over a list of backends
SearchInit ==
  /\ PipeIdle /\ ProvIdle /\ NormIdle /\ RankIdle /\ MoreIdle
  /\ c_query \in {"", "The Earth is flat"}
  /\ c_limit \in 1..MaxLimit
  /\ c_kind \in {"single", "composite"}
  /\ c_backends \in BackendLists
  /\ c_kind = "single" => Len(c_backends) = 1
  /\ c_pc = "new" /\ c_i = 0 /\ aggregated = <<>> /\ seen_urls = {}
  /\ c_calls = <<>> /\ provider_ret = Returns(<<>>) /\ c_result = <<>>

\* search.py 334-336: empty query returns [], else the provider is selected
WebSearchEnter ==
  /\ c_pc = "new"
  /\ IF c_query = ""
     THEN c_pc' = "done" /\ c_result' = web_search(provider_ret, c_query).items
     ELSE c_pc' = "in_provider" /\ c_result' = c_result
  /\ UNCHANGED <<otherVars, pipeVars, c_query, c_limit, c_kind, c_backends, c_i, aggregated,
                 seen_urls, c_calls, provider_ret>>

\* the selected provider is a single backend: its search is the provider call
SingleSearch ==
  /\ c_pc = "in_provider" /\ c_kind = "single"
  /\ provider_ret' = ProviderCall(c_backends[1], c_query, c_limit)
  /\ c_calls' = Append(c_calls, 1)
  /\ c_pc' = "provider_done"
  /\ UNCHANGED <<otherVars, pipeVars, c_query, c_limit, c_kind, c_backends, c_i, aggregated,
                 seen_urls, c_result>>

\* a composite that lets a backend's exception through
CompositeCatch_none(ret) == ret

\* search.py 302-305: what the composite makes of one backend call
CompositeCatch(ret) == CaughtEmpty(ret)

\* the limit test with > for >=
LimitReached_strict(agg, limit) == Len(agg) > limit

\* search.py 312: enough results gathered
LimitReached(agg, limit) == Len(agg) >= limit

\* search.py 306-313: the inner loop over one backend's results
RECURSIVE Collect(_, _, _, _)
Collect(results, agg, seen, limit) ==
  IF results = <<>> THEN [aggregated |-> agg, seen |-> seen, returned |-> FALSE]
  ELSE LET r == Head(results)
       IN IF r.url = "" \/ r.url \in seen
          THEN Collect(Tail(results), agg, seen, limit)
          ELSE IF LimitReached(Append(agg, r), limit)
          THEN [aggregated |-> Append(agg, r), seen |-> seen \cup {r.url},
                returned |-> TRUE]
          ELSE Collect(Tail(results), Append(agg, r), seen \cup {r.url}, limit)

\* search.py 301-313: one iteration of `for provider in self.providers`
CompositeStep ==
  /\ c_pc = "in_provider" /\ c_kind = "composite" /\ c_i < Len(c_backends)
  /\ LET b == c_i + 1
         got == CompositeCatch(ProviderCall(c_backends[b], c_query, c_limit))
         acc == Collect(got.items, aggregated, seen_urls, c_limit)
     IN /\ c_calls' = Append(c_calls, b)
        /\ c_i' = b
        /\ IF got.raises
           THEN /\ provider_ret' = Raise
                /\ c_pc' = "provider_done"
                /\ UNCHANGED <<aggregated, seen_urls>>
           ELSE /\ aggregated' = acc.aggregated
                /\ seen_urls' = acc.seen
                /\ IF acc.returned
                   THEN provider_ret' = Returns(acc.aggregated) /\ c_pc' = "provider_done"
                   ELSE UNCHANGED <<provider_ret, c_pc>>
  /\ UNCHANGED <<otherVars, pipeVars, c_query, c_limit, c_kind, c_backends, c_result>>

\* search.py 314: all backends gone through
CompositeExhausted ==
  /\ c_pc = "in_provider" /\ c_kind = "composite" /\ c_i = Len(c_backends)
  /\ provider_ret' = Returns(aggregated)
  /\ c_pc' = "provider_done"
  /\ UNCHANGED <<otherVars, pipeVars, c_query, c_limit, c_kind, c_backends, c_i, aggregated,
                 seen_urls, c_calls, c_result>>

\* search.py 337-340: web_search returns the provider's list, or [] if it raised
WebSearchExit ==
  /\ c_pc = "provider_done"
  /\ LET r == web_search(provider_ret, c_query)
     IN IF r.raises
        THEN c_pc' = "raised" /\ c_result' = c_result
        ELSE c_pc' = "done" /\ c_result' = r.items
  /\ UNCHANGED <<otherVars, pipeVars, c_query, c_limit, c_kind, c_backends, c_i, aggregated,
                 seen_urls, c_calls, provider_ret>>

SearchNext ==
  \/ WebSearchEnter \/ SingleSearch \/ CompositeStep \/ CompositeExhausted
  \/ WebSearchExit

SearchSpec == SearchInit /\ [][SearchNext]_vars

\* what backend b adds to a composite search: nothing when it raises, else its
\* first c_limit results
Contribution(b) ==
  IF c_backends[b].raises THEN <<>>
  ELSE SubSeq(c_backends[b].items, 1, Min(c_limit, Len(c_backends[b].items)))

RECURSIVE ConcatUpTo(_)
ConcatUpTo(n) == IF n = 0 THEN <<>> ELSE ConcatUpTo(n - 1) \o Contribution(n)

\* the items of a list whose url occurs at no earlier position
FirstSeen(items) ==
  LET IsFirst(i) == \A j \in 1..(i - 1) : items[j].url # items[i].url
      RECURSIVE Keep(_)
      Keep(i) == IF i = 0 THEN <<>>
                 ELSE IF IsFirst(i) THEN Append(Keep(i - 1), items[i])
                 ELSE Keep(i - 1)
  IN Keep(Len(items))

FirstN(items, n) == SubSeq(items, 1, Min(n, Len(items)))

\* C9: neither web_search nor the composite's search raises; a backend that
\* raises adds nothing and the next one is tried, so the result is the first
\* c_limit first-seen items of the backends that did not raise (for a thrower
\* followed by a working fallback: the fallback's results only).
C9_SearchNeverRaises ==
  /\ c_pc # "raised"
  /\ c_kind = "composite" => ~provider_ret.raises
  /\ (c_pc = "done" /\ c_query = "") => c_result = <<>>
  /\ (c_pc = "done" /\ c_query # "" /\ c_kind = "single") =>
       c_result = Contribution(1)
  /\ (c_pc = "done" /\ c_query # "" /\ c_kind = "composite") =>
       c_result = FirstN(FirstSeen(ConcatUpTo(Len(c_backends))), c_limit)

C9_Witness ==
  /\ c_pc = "done" /\ c_kind = "composite" /\ Len(c_backends) = 2
  /\ c_backends[1].raises /\ ~c_backends[2].raises
  /\ Len(c_backends[2].items) = 2 /\ c_limit = 2
  /\ c_calls = <<1, 2>>
  /\ Len(c_result) = 1 /\ c_result[1].source = 2

\* C10: the composite calls its backends in list order, gathers items with
\* pairwise distinct urls in first-seen order, never more than c_limit, and
\* calls no backend once c_limit items are gathered; it goes through all
\* backends only while fewer than c_limit are gathered.
C10_CompositeOrderLimit ==
  c_kind = "composite" =>
    /\ \A j \in 1..Len(c_calls) : c_calls[j] = j
    /\ c_i = Len(c_calls)
    /\ \A i, j \in 1..Len(aggregated) :
         i # j => aggregated[i].url # aggregated[j].url
    /\ aggregated = FirstN(FirstSeen(ConcatUpTo(Len(c_calls))), c_limit)
    /\ Len(aggregated) <= c_limit
    /\ \A j \in 1..Len(c_calls) :
         Len(FirstSeen(ConcatUpTo(j - 1))) < c_limit
    /\ (c_pc \in {"provider_done", "done"} /\ c_query # "") =>
         /\ provider_ret = Returns(aggregated)
         /\ Len(aggregated) < c_limit => Len(c_calls) = Len(c_backends)

C10_Witness ==
  /\ c_pc = "done" /\ c_kind = "composite" /\ Len(c_backends) = 2
  /\ c_limit = 2 /\ c_calls = <<1>>
  /\ ~c_backends[1].raises /\ ~c_backends[2].raises
  /\ Len(c_backends[2].items) > 0
  /\ Len(c_result) = 2

\* ======================================================== provider selector
\* os.getenv(name) of a variable that is not set
Unset == "<unset>"

\* values the environment may hold
ModeValues == {Unset, "", "auto", "bing", " BING ", "duckduckgo", "Wikipedia", "google"}
KeyValues == {Unset, "", "key-1"}
SearchKeyValues == {Unset, "", "key-2"}
EndpointValues == {Unset, "https://bing.local/search"}

\* BingWebSearchProvider.__init__: the official endpoint
DefaultEndpoint == "https://api.bing.microsoft.com/v7.0/search"

\* Python truth value of an optional string
Falsy(v) == v \in {Unset, ""}

\* Python `a or b`
OrElse(a, b) == IF Falsy(a) THEN b ELSE a

\* the selector compared as it is written, case and blanks included
StripLower_asWritten(v) == v

\* str.strip().lower() on the values above
StripLower(v) ==
  CASE v = " BING " -> "bing"
    [] v = "Wikipedia" -> "wikipedia"
    [] OTHER -> v

BingWebSearchProvider(api_key, endpoint) ==
  [kind |-> "bing", api_key |-> api_key,
   endpoint |-> OrElse(endpoint, DefaultEndpoint), providers |-> <<>>]

DuckDuckGoProvider ==
  [kind |-> "duckduckgo", api_key |-> Unset, endpoint |-> Unset, providers |-> <<>>]

WikipediaSearchProvider ==
  [kind |-> "wikipedia", api_key |-> Unset, endpoint |-> Unset, providers |-> <<>>]

CompositeProvider(providers) ==
  [kind |-> "composite", api_key |-> Unset, endpoint |-> Unset, providers |-> providers]

\* search.py 268-289
_get_provider(mode, bing_key, search_key, endpoint) ==
  LET choice == StripLower(OrElse(mode, "auto"))
      api_key == OrElse(bing_key, search_key)
  IN IF choice = "bing"
     THEN IF ~Falsy(api_key)
          THEN BingWebSearchProvider(api_key, endpoint)
          ELSE CompositeProvider(<<DuckDuckGoProvider, WikipediaSearchProvider>>)
     ELSE IF choice = "duckduckgo" THEN DuckDuckGoProvider
     ELSE IF choice = "wikipedia" THEN WikipediaSearchProvider
     ELSE IF ~Falsy(api_key)
          THEN BingWebSearchProvider(api_key, endpoint)
          ELSE CompositeProvider(<<DuckDuckGoProvider, WikipediaSearchProvider>>)

\* The process runs with some environment; no retrieval has been made yet.
ProviderInit ==
  /\ PipeIdle /\ CompIdle /\ NormIdle /\ RankIdle /\ MoreIdle
  /\ env_mode \in ModeValues
  /\ env_bing_key \in KeyValues
  /\ env_search_key \in SearchKeyValues
  /\ env_endpoint \in EndpointValues
  /\ p_used = <<>>

\* the environment changes while the service runs
SetMode ==
  /\ \E v \in ModeValues \ {env_mode} : env_mode' = v
  /\ UNCHANGED <<moreVars, pipeVars, compVars, normVars, rankVars, env_bing_key,
                 env_search_key, env_endpoint, p_used>>

SetKey ==
  /\ \/ /\ \E v \in KeyValues \ {env_bing_key} : env_bing_key' = v
        /\ UNCHANGED env_search_key
     \/ /\ \E v \in SearchKeyValues \ {env_search_key} : env_search_key' = v
        /\ UNCHANGED env_bing_key
  /\ UNCHANGED <<moreVars, pipeVars, compVars, normVars, rankVars, env_mode, env_endpoint, p_used>>

SetEndpoint ==
  /\ \E v \in EndpointValues \ {env_endpoint} : env_endpoint' = v
  /\ UNCHANGED <<moreVars, pipeVars, compVars, normVars, rankVars, env_mode, env_bing_key,
                 env_search_key, p_used>>

\* search.py 336-338: a web_search call with a query selects its provider and
\* searches with it
Retrieve ==
  /\ Len(p_used) < MaxRetrievals
  /\ p_used' = Append(p_used,
                      _get_provider(env_mode, env_bing_key, env_search_key, env_endpoint))
  /\ UNCHANGED <<moreVars, pipeVars, compVars, normVars, rankVars, env_mode, env_bing_key,
                 env_search_key, env_endpoint>>

ProviderNext == SetMode \/ SetKey \/ SetEndpoint \/ Retrieve

ProviderSpec == ProviderInit /\ [][ProviderNext]_vars

\* the spellings of each mode among the values of the environment
BingModes == {"bing", " BING "}
DuckDuckGoModes == {"duckduckgo"}
WikipediaModes == {"Wikipedia"}

KeyPresent == ~Falsy(env_bing_key) \/ ~Falsy(env_search_key)

KeylessComposite(p) ==
  /\ p.kind = "composite" /\ Len(p.providers) = 2
  /\ p.providers[1].kind = "duckduckgo" /\ p.providers[2].kind = "wikipedia"

\* the provider the decision table gives for the environment as it is
FollowsTable(p) ==
  IF env_mode \in DuckDuckGoModes THEN p.kind = "duckduckgo"
  ELSE IF env_mode \in WikipediaModes THEN p.kind = "wikipedia"
  ELSE IF KeyPresent THEN p.kind = "bing" /\ ~Falsy(p.api_key) /\ ~Falsy(p.endpoint)
  ELSE KeylessComposite(p)

\* C11: every selection returns a provider, and the one the decision table
\* gives for the (mode, key present) pair of the environment it was made in:
\* "duckduckgo" and "wikipedia" their keyless backend whatever the key, every
\* other mode ("bing", "auto", unset, empty, unknown) the keyed backend with a
\* key and composite(keyless A, keyless B) in that order without one.
C11_SelectorTable ==
  [][Len(p_used') > Len(p_used) => FollowsTable(p_used'[Len(p_used')])]_vars

C11_Witness ==
  /\ Len(p_used) = 2
  /\ env_mode = " BING " /\ ~KeyPresent
  /\ KeylessComposite(p_used[2])
  /\ p_used[1].kind = "wikipedia"

\* C12: all retrievals search with one and the same provider, the one selected
\* when the first provider was constructed, whatever happens to the
\* configuration in between.
C12_ConfigReadOnce ==
  \A i, j \in 1..Len(p_used) : p_used[i] = p_used[j]

\* ========================================================== backend search
\* Python None in a field of a raw result
None == "<None>"

\* _norm_result returned None
NoItem == <<>>

\* what the upstream response holds for one result
RawResults ==
  {[url |-> " https://a ", title |-> " Title ", snippet |-> None],
   [url |-> "https://b", title |-> "Other", snippet |-> " text "],
   [url |-> "https://c", title |-> None, snippet |-> " text "],
   [url |-> "https://c", title |-> "  ", snippet |-> None],
   [url |-> "  ", title |-> "Other", snippet |-> " text "],
   [url |-> None, title |-> " Title ", snippet |-> None]}

RawLists == UNION {[1..n -> RawResults] : n \in 0..MaxResults}

Backends == {"bing", "duckduckgo", "wikipedia"}

\* str.strip() on the strings above
strip(s) ==
  CASE s = "  " -> ""
    [] s = " https://a " -> "https://a"
    [] s = " Title " -> "Title"
    [] s = " text " -> "text"
    [] OTHER -> s

\* search.py 9-13
_clean_text(s) ==
  IF s = None THEN None
  ELSE IF strip(s) = "" THEN None ELSE strip(s)

\* a normalizer that keeps every result
_norm_result_unchecked(url, title, snippet, source, rank) ==
  [title |-> title, url |-> url, snippet |-> _clean_text(snippet),
   source |-> source, rank |-> rank]

\* search.py 16-33; the score is 1 / rank
_norm_result(url, title, snippet, source, rank) ==
  IF _clean_text(url) \in {None, ""} \/ _clean_text(title) \in {None, ""}
  THEN NoItem
  ELSE [title |-> _clean_text(title), url |-> _clean_text(url),
        snippet |-> _clean_text(snippet), source |-> source, rank |-> rank]

\* the fields a backend takes from a raw result: the keyless page scraper has
\* no snippet (search.py 184), the others pass all three (95, 222)
ExtractFields(backend, v) ==
  [url |-> v.url, title |-> v.title,
   snippet |-> IF backend = "duckduckgo" THEN None ELSE v.snippet]

\* a backend's search(query, top_k) with a query is about to be called
NormInit ==
  /\ PipeIdle /\ CompIdle /\ ProvIdle /\ RankIdle /\ MoreIdle
  /\ n_backend \in Backends
  /\ n_raw \in RawLists
  /\ n_topk \in 1..MaxLimit
  /\ n_i = 0 /\ n_results = <<>> /\ n_pc = "new" /\ n_out = <<>>

\* search.py 75-79, 115-120, 209-213: the upstream answers
BackendFetch ==
  /\ n_pc = "new"
  /\ n_pc' = "loop"
  /\ UNCHANGED <<moreVars, pipeVars, compVars, provVars, rankVars, n_backend, n_raw, n_topk,
                 n_i, n_results, n_out>>

\* search.py 80-81, 121-122, 214-215: the request fails, the backend returns []
BackendFetchFails ==
  /\ n_pc = "new"
  /\ n_pc' = "returned"
  /\ UNCHANGED <<moreVars, pipeVars, compVars, provVars, rankVars, n_backend, n_raw, n_topk,
                 n_i, n_results, n_out>>

\* search.py 85-99, 169-188, 221-226: one iteration of the loop over the raw
\* results
BackendStep ==
  /\ n_pc = "loop" /\ n_i < Len(n_raw)
  /\ LET f == ExtractFields(n_backend, n_raw[n_i + 1])
         it == _norm_result(f.url, f.title, f.snippet, n_backend, n_i + 1)
         results == IF it = NoItem THEN n_results ELSE Append(n_results, it)
     IN /\ n_results' = results
        /\ n_pc' = IF Len(results) >= n_topk THEN "returned" ELSE "loop"
  /\ n_i' = n_i + 1
  /\ UNCHANGED <<moreVars, pipeVars, compVars, provVars, rankVars, n_backend, n_raw, n_topk, n_out>>

\* search.py 100, 189, 229: the raw results are used up
BackendExhausted ==
  /\ n_pc = "loop" /\ n_i = Len(n_raw)
  /\ n_pc' = "returned"
  /\ UNCHANGED <<moreVars, pipeVars, compVars, provVars, rankVars, n_backend, n_raw, n_topk,
                 n_i, n_results, n_out>>

\* search.py 298-314 and 337-338: a composite over this backend gathers its
\* results and web_search returns what the composite returns
ComposeOver ==
  /\ n_pc = "returned"
  /\ n_out' = Collect(n_results, <<>>, {}, n_topk).aggregated
  /\ n_pc' = "done"
  /\ UNCHANGED <<moreVars, pipeVars, compVars, provVars, rankVars, n_backend, n_raw, n_topk,
                 n_i, n_results>>

NormNext ==
  BackendFetch \/ BackendFetchFails \/ BackendStep \/ BackendExhausted \/ ComposeOver

NormSpec == NormInit /\ [][NormNext]_vars

\* title and url are there and not empty after trimming
HasTitleAndUrl(r) ==
  /\ r.title # None /\ strip(r.title) # ""
  /\ r.url # None /\ strip(r.url) # ""

\* C13: no item whose title or url is missing or empty after trimming is in
\* the list a backend's search builds, nor in what a composite over it and
\* web_search return; an item without snippet is kept.
C13_NoEmptyTitleOrUrl ==
  /\ \A i \in 1..Len(n_results) : HasTitleAndUrl(n_results[i])
  /\ \A i \in 1..Len(n_out) : HasTitleAndUrl(n_out[i])

C13_Witness ==
  /\ n_pc = "done" /\ Len(n_raw) = 2
  /\ n_raw[1].title = "  "
  /\ Len(n_out) = 1 /\ n_out[1].rank = 2 /\ n_out[1].snippet = None
  /\ n_out[1].url = "https://a"

\* ========================================================== evidence ranker
RankClaims == {"", "The Earth is flat.", "The Earth is not flat."}

RankItems == {ItemFor, ItemAgainst, ItemWeak, ItemScenarioB, ItemNegated}

EvidenceLists == UNION {[1..n -> RankItems] : n \in 0..MaxEvid}

\* rank_and_label_evidence_for_claim(claim, evidence, top_k_support,
\* top_k_refute) is about to be called, then called again with the same
\* arguments
RankInit ==
  /\ PipeIdle /\ CompIdle /\ ProvIdle /\ NormIdle /\ MoreIdle
  /\ k_claim \in RankClaims
  /\ k_evidence \in EvidenceLists
  /\ k_missing \in BOOLEAN
  /\ k_missing => k_evidence = <<>>
  /\ k_top_support \in 0..MaxTopK
  /\ k_top_refute \in 0..MaxTopK
  /\ k_pc = "new" /\ k_calls = 0 /\ k_stats = 0 /\ k_scored = <<>>
  /\ k_first = NeiResult /\ k_result = NeiResult

\* the call returns r
RankReturns(r) ==
  /\ k_result' = r
  /\ k_first' = IF k_calls = 0 THEN r ELSE k_first
  /\ k_calls' = k_calls + 1
  /\ k_pc' = "returned"

\* lines 194-196: ev = evidence or []; an empty claim or list returns at once
RankEnter ==
  /\ k_pc = "new"
  /\ IF EmptyInput(k_claim, IF k_missing THEN <<>> ELSE k_evidence)
     THEN /\ RankReturns(NeiResult)
          /\ UNCHANGED <<k_stats, k_scored>>
     ELSE /\ k_pc' = "entered"
          /\ UNCHANGED <<k_stats, k_scored, k_first, k_result, k_calls>>
  /\ UNCHANGED <<moreVars, pipeVars, compVars, provVars, normVars, k_claim, k_evidence,
                 k_missing, k_top_support, k_top_refute>>

\* enriched = it: the scores are written into the caller's items
EvidenceAfterScoring_inPlace(ev, scored) == scored

\* line 151: enriched = dict(it), the caller's items stay as they were
EvidenceAfterScoring(ev, scored) == ev

\* lines 198-201: corpus statistics, then the per-item scores
RankScore ==
  /\ k_pc = "entered"
  /\ k_stats' = k_stats + 1
  /\ k_scored' = _score_items_for_claim(k_claim, k_evidence)
  /\ k_evidence' = EvidenceAfterScoring(k_evidence,
                                        _score_items_for_claim(k_claim, k_evidence))
  /\ k_pc' = "scored"
  /\ UNCHANGED <<moreVars, pipeVars, compVars, provVars, normVars, k_claim, k_missing,
                 k_top_support, k_top_refute, k_calls, k_first, k_result>>

\* lines 203-245
RankFinish ==
  /\ k_pc = "scored"
  /\ RankReturns(RankScored(k_scored, k_top_support, k_top_refute))
  /\ UNCHANGED <<moreVars, pipeVars, compVars, provVars, normVars, k_claim, k_evidence,
                 k_missing, k_top_support, k_top_refute, k_stats, k_scored>>

\* the caller calls again with the same claim and the same list object
RankAgain ==
  /\ k_pc = "returned" /\ k_calls = 1
  /\ k_pc' = "new"
  /\ k_scored' = <<>>
  /\ UNCHANGED <<moreVars, pipeVars, compVars, provVars, normVars, k_claim, k_evidence,
                 k_missing, k_top_support, k_top_refute, k_calls, k_stats,
                 k_first, k_result>>

RankNext == RankEnter \/ RankScore \/ RankFinish \/ RankAgain

RankSpec == RankInit /\ [][RankNext]_vars

\* at least one call has returned: k_result is what the latest one returned
HasReturned == k_calls >= 1

\* the scores of the evidence item a returned item was made of
ItemByUrl(u) == CHOOSE it \in RankItems : it.url = u

ScoredOf(r) == ScoreItem(k_claim, ItemByUrl(r.url))

RECURSIVE SumScoredOf(_, _)
SumScoredOf(list, dir) ==
  IF list = <<>> THEN 0
  ELSE DirScore(ScoredOf(Head(list)), dir) + SumScoredOf(Tail(list), dir)

RECURSIVE SumField(_)
SumField(list) == IF list = <<>> THEN 0 ELSE Head(list).score + SumField(Tail(list))

\* C14: the supporting list is no longer than top_k_support, the refuting
\* list no longer than top_k_refute, and the aggregate score is the sum of the
\* support scores of the returned supporting items minus the sum of the
\* refute scores of the returned refuting items, cut-off items left out.
C14_LengthsAndAggregate ==
  HasReturned =>
    /\ Len(k_result.supporting_evidence) <= k_top_support
    /\ Len(k_result.refuting_evidence) <= k_top_refute
    /\ k_result.score = SumScoredOf(k_result.supporting_evidence, "support")
                          - SumScoredOf(k_result.refuting_evidence, "refute")

C14_Witness ==
  /\ HasReturned /\ k_claim = "The Earth is flat."
  /\ k_evidence = <<ItemAgainst, ItemFor, ItemScenarioB>>
  /\ k_top_refute = 1 /\ k_top_support = 1
  /\ Len(k_result.refuting_evidence) = 1
  /\ Len(k_result.supporting_evidence) = 1
  /\ k_result.score = 120 - 180

\* C15: with supportSum and refuteSum the sums of the scores of the returned
\* lists, the label is SUPPORTED iff supportSum >= max(0.6, 1.2 refuteSum) and
\* a supporting item is kept, else REFUTED iff refuteSum >= max(0.6, 1.2
\* supportSum) and a refuting item is kept, else NEI.
C15_LabelRule ==
  HasReturned =>
    LET sup == k_result.supporting_evidence
        ref == k_result.refuting_evidence
        supportSum == SumField(sup)
        refuteSum == SumField(ref)
        supported == 10 * supportSum >= Max(10 * LabelThreshold, LabelRatio * refuteSum)
                       /\ Len(sup) >= 1
        refuted == 10 * refuteSum >= Max(10 * LabelThreshold, LabelRatio * supportSum)
                     /\ Len(ref) >= 1
    IN /\ k_result.label = "SUPPORTED" <=> supported
       /\ k_result.label = "REFUTED" <=> (~supported /\ refuted)
       /\ k_result.label = "NEI" <=> (~supported /\ ~refuted)

C15_Witness ==
  /\ HasReturned /\ k_result.label = "NEI"
  /\ Len(k_result.supporting_evidence) = 1 /\ Len(k_result.refuting_evidence) = 1
  /\ SumField(k_result.supporting_evidence) = 180
  /\ SumField(k_result.refuting_evidence) = 180

\* C29: the SUPPORTED test and the REFUTED test of the label rule never both
\* succeed, so the label is REFUTED exactly when the REFUTED test succeeds,
\* whichever is tried first; a SUPPORTED label comes with a positive aggregate
\* score, a REFUTED label with a negative one, and an aggregate of 0 with NEI.
C29_LabelSign ==
  HasReturned =>
    LET sup == k_result.supporting_evidence
        ref == k_result.refuting_evidence
        supported == /\ SumField(sup) >= 60 /\ 10 * SumField(sup) >= 12 * SumField(ref)
                     /\ Len(sup) >= 1
        refuted == /\ SumField(ref) >= 60 /\ 10 * SumField(ref) >= 12 * SumField(sup)
                   /\ Len(ref) >= 1
    IN /\ ~(supported /\ refuted)
       /\ k_result.label = "REFUTED" <=> refuted
       /\ k_result.label = "SUPPORTED" => k_result.score > 0
       /\ k_result.label = "REFUTED" => k_result.score < 0
       /\ k_result.score = 0 => k_result.label = "NEI"

C29_Witness ==
  /\ HasReturned /\ k_result.label = "REFUTED"
  /\ Len(k_result.supporting_evidence) = 1
  /\ SumField(k_result.supporting_evidence) = 120
  /\ SumField(k_result.refuting_evidence) = 180
  /\ k_result.score = -60

\* positions of the evidence list whose item has a positive score in direction dir
CandPos(dir) ==
  {p \in 1..Len(k_evidence) : DirScore(ScoreItem(k_claim, k_evidence[p]), dir) > 0}

HasUrl(list, u) == \E i \in 1..Len(list) : list[i].url = u

\* C16: an item whose title or snippet holds a contradiction cue has stance
\* -0.9 whatever the negation cues; any other item has +0.6 when claim and
\* item agree on holding a negation cue and -0.6 when they disagree; and the
\* evidence of Scenario B, ranked for "The Earth is flat.", is never in the
\* supporting list and is in the refuting list unless truncation cuts it off.
C16_Stance ==
  /\ \A i \in 1..Len(k_scored) :
       LET x == k_scored[i]
           cue == HasContradictionCue(x.title) \/ HasContradictionCue(x.snippet)
           ev_neg == HasNegationCue(x.title) \/ HasNegationCue(x.snippet)
       IN /\ x.stance \in {StanceContradict, StanceDisagree, StanceAgree}
          /\ cue => x.stance = StanceContradict
          /\ (~cue /\ HasNegationCue(k_claim) = ev_neg) => x.stance = StanceAgree
          /\ (~cue /\ HasNegationCue(k_claim) # ev_neg) => x.stance = StanceDisagree
  /\ (HasReturned /\ k_claim = "The Earth is flat."
        /\ \E p \in 1..Len(k_evidence) : k_evidence[p] = ItemScenarioB) =>
       /\ ~HasUrl(k_result.supporting_evidence, ItemScenarioB.url)
       /\ Cardinality(CandPos("refute")) <= k_top_refute =>
            HasUrl(k_result.refuting_evidence, ItemScenarioB.url)

C16_Witness ==
  /\ k_pc = "returned" /\ k_claim = "The Earth is flat."
  /\ k_evidence = <<ItemScenarioB>> /\ k_top_refute = 1
  /\ k_scored[1].stance = StanceContradict
  /\ Len(k_result.refuting_evidence) = 1
  /\ k_result.refuting_evidence[1].url = "https://x"
  /\ k_result.supporting_evidence = <<>>

\* x has the greater (directional score, similarity) key
KeyGreater(x, y, dir) ==
  \/ DirScore(x, dir) > DirScore(y, dir)
  \/ DirScore(x, dir) = DirScore(y, dir) /\ x.similarity > y.similarity

\* list holds exactly the k best candidates of direction dir, best first
IsTopK(list, k, dir) ==
  LET n == Len(list)
      cand == CandPos(dir)
      sc(i) == ScoredOf(list[i])
      ev(p) == ScoreItem(k_claim, k_evidence[p])
  IN /\ n = Min(k, Cardinality(cand))
     /\ \A i \in 1..n : DirScore(sc(i), dir) > 0 /\ sc(i).similarity > 0
     /\ \A i \in 1..n :
          Cardinality({j \in 1..n : list[j].url = list[i].url})
            <= Cardinality({p \in cand : k_evidence[p].url = list[i].url})
     /\ \A i, j \in 1..n : i < j => ~KeyGreater(sc(j), sc(i), dir)
     /\ n > 0 =>
          Cardinality({p \in cand : KeyGreater(ev(p), sc(n), dir)})
            = Cardinality({i \in 1..n : KeyGreater(sc(i), sc(n), dir)})

\* C17: the supporting list is exactly the top_k_support items of highest
\* support score among those with support score > 0, in descending order of
\* support score, similarity breaking ties; likewise the refuting list; an
\* item of similarity 0 is in neither.
C17_TopKOrder ==
  HasReturned =>
    /\ IsTopK(k_result.supporting_evidence, k_top_support, "support")
    /\ IsTopK(k_result.refuting_evidence, k_top_refute, "refute")

C17_Witness ==
  /\ HasReturned /\ k_claim = "The Earth is flat."
  /\ k_evidence = <<ItemAgainst, ItemScenarioB, ItemNegated>>
  /\ k_top_refute = 2
  /\ Len(k_result.refuting_evidence) = 2
  /\ k_result.refuting_evidence[1].url = ItemNegated.url
  /\ k_result.refuting_evidence[2].url = ItemScenarioB.url

C19_EmptyInput ==
  (k_claim = "" \/ k_missing \/ k_evidence = <<>>) =>
    /\ k_stats = 0 /\ k_scored = <<>>
    /\ k_pc \in {"new", "returned"}
    /\ HasReturned => k_result = NeiResult

C19_Witness ==
  /\ k_calls = 2 /\ k_claim = "" /\ Len(k_evidence) = 3
  /\ k_result = NeiResult /\ k_stats = 0

\* ========================================================== claim detector
OldIdle == PipeIdle /\ CompIdle /\ ProvIdle /\ NormIdle /\ RankIdle

\* the raw tokens the texts given to is_claim are made of
DetectTokens ==
  {W("is"), W("cat"), Tok("", "cat", "."), Tok("", "cat", "?"), W("Paris"),
   Tok("(", "Paris", ")"), Tok("(", "NASA", ")"), Tok("", "b2b", "."), W("42"),
   W("What"), W("said"), Tok("(", "cat", ".)"), W(LongWord)}

DetectTexts == UNION {[1..n -> DetectTokens] : n \in 0..MaxTokens}

\* the elements of the batches
BatchCorpus ==
  {NoSentence, Str(<<>>), Str(Written("Paris is the capital of France.")),
   Str(Written("What time is it?")), Str(<<Tok("", "cat", ".")>>)}

\* the sentence lists given to detect_claims: any one text, or a batch
DetectInputs ==
  {<<Str(t)>> : t \in DetectTexts} \cup UNION {[1..n -> BatchCorpus] : n \in 0..MaxBatch}

\* detect_claims(sentences) is about to be called
DetectInit ==
  /\ OldIdle /\ DdgIdle /\ AuthIdle
  /\ d_sentences \in DetectInputs
  /\ d_pc = "called" /\ d_flags = <<>> /\ d_k = 0 /\ d_alone = <<>>

\* lines 150-152: the call returns
DetectReturn ==
  /\ d_pc = "called"
  /\ d_flags' = detect_claims(d_sentences)
  /\ d_pc' = "returned"
  /\ UNCHANGED <<oldVars, ddgVars, authVars, d_sentences, d_k, d_alone>>

\* a later call of detect_claims with one of the sentences on its own
DetectAlone ==
  /\ d_pc = "returned"
  /\ \E i \in 1..Len(d_sentences) :
       /\ d_k' = i
       /\ d_alone' = detect_claims(<<d_sentences[i]>>)
  /\ d_pc' = "alone"
  /\ UNCHANGED <<oldVars, ddgVars, authVars, d_sentences, d_flags>>

DetectNext == DetectReturn \/ DetectAlone

DetectSpec == DetectInit /\ [][DetectNext]_vars

DetectReturned == d_pc \in {"returned", "alone"}

\* C23: detect_claims returns one boolean per sentence, the i-th being
\* is_claim of the i-th sentence (of the empty string when it is missing), and
\* the same boolean comes back when that sentence is passed on its own in a
\* later call.
C23_DetectElementwise ==
  /\ DetectReturned =>
       /\ Len(d_flags) = Len(d_sentences)
       /\ \A i \in 1..Len(d_sentences) :
            /\ d_flags[i] \in BOOLEAN
            /\ d_flags[i] = is_claim(IF d_sentences[i].none THEN <<>>
                                     ELSE d_sentences[i].text)
  /\ d_pc = "alone" => d_alone = <<d_flags[d_k]>>

C23_Witness ==
  /\ d_pc = "alone" /\ Len(d_sentences) = 2 /\ d_k = 2
  /\ d_sentences[1] = NoSentence
  /\ d_flags = <<FALSE, TRUE>>

\* the text with the brackets around it taken off
Inner(text) == _strip_quotes(text)

\* the words of a text, lower-cased, punctuation stripped
WordsOf(text) == [i \in 1..Len(text) |-> lower(text[i].word)]

EndsInQuestionMark(text) == text # <<>> /\ LastChar(text[Len(text)].post) = "?"

StartsWithLead(text) == text # <<>> /\ WordsOf(text)[1] \in _NON_CLAIM_LEADS

Interrogative(text) == EndsInQuestionMark(Inner(text)) \/ StartsWithLead(text)

\* 6 to 2000 characters once the brackets are off, and not interrogative
PassesGuards(text) ==
  /\ n_chars(Inner(text)) >= 6 /\ n_chars(Inner(text)) <= 2000
  /\ ~Interrogative(text)

InLexicon(text) ==
  \E i \in 1..Len(text) : WordsOf(text)[i] \in (_ASSERTIVE_VERBS \cup _MODAL_VERBS)

\* a token that is a number
IsNumber(word) == word \in {"42"}

\* a raw token that starts with a capital letter, or is all capitals
Capitalized(t) ==
  \/ t.pre = "" /\ StartsUpper(t.word)
  \/ TokLen(t) > 1 /\ AllUpper(t.word)

NamedLike(text) == \E i \in 2..Len(text) : Capitalized(Inner(text)[i])

EndsTerminal(text) ==
  text # <<>> /\ LastChar(Inner(text)[Len(text)].post) \in {".", "!", "?"}

ReportingLead(text) == text # <<>> /\ WordsOf(text)[1] \in _REPORTING_VERBS

RuleScore(text, numeric) ==
  (IF InLexicon(text) THEN 2 ELSE 0)
    + (IF numeric \/ NamedLike(text) THEN 1 ELSE 0)
    + (IF EndsTerminal(text) THEN 1 ELSE 0)
    - (IF ReportingLead(text) THEN 1 ELSE 0)

\* the rule, where numeric tells whether the text has the numeric cue
FollowsRule(flag, text, numeric) ==
  /\ PassesGuards(text) => (flag <=> RuleScore(text, numeric) >= 2)
  /\ (n_chars(Inner(text)) < 6 \/ n_chars(Inner(text)) > 2000) => ~flag

\* C24 as stated: for a sentence that passes the guards is_claim is true iff
\* score >= 2, the numeric cue being a token that is numeric; a sentence
\* shorter than 6 or longer than 2000 characters is rejected.
C24_ScoreRuleNumericToken ==
  DetectReturned =>
    \A i \in 1..Len(d_sentences) :
      FollowsRule(d_flags[i], OrEmpty(d_sentences[i]),
                  \E j \in 1..Len(OrEmpty(d_sentences[i])) :
                    IsNumber(OrEmpty(d_sentences[i])[j].word))

\* C24, amended: the same rule, the numeric cue being a digit anywhere in the
\* sentence (a token need not be a number to count).
C24_ScoreRule ==
  DetectReturned =>
    \A i \in 1..Len(d_sentences) :
      FollowsRule(d_flags[i], OrEmpty(d_sentences[i]),
                  \E j \in 1..Len(OrEmpty(d_sentences[i])) :
                    HasDigit(OrEmpty(d_sentences[i])[j].word))

C24_Witness ==
  /\ DetectReturned /\ Len(d_sentences) = 1
  /\ d_sentences[1].text = <<W("said"), W("is"), Tok("", "b2b", ".")>>
  /\ d_flags = <<TRUE>>

\* C25: a sentence that ends with a question mark, or whose first word is an
\* interrogative or imperative lead, is never a claim, whatever else it holds;
\* of the two sentences of Scenario A the first is a claim and the second not.
C25_QuestionsRejected ==
  DetectReturned =>
    /\ \A i \in 1..Len(d_sentences) :
         (EndsInQuestionMark(OrEmpty(d_sentences[i]))
            \/ StartsWithLead(OrEmpty(d_sentences[i]))) => ~d_flags[i]
    /\ d_sentences = <<Str(Written("Paris is the capital of France.")),
                       Str(Written("What time is it?"))>>
         => d_flags = <<TRUE, FALSE>>

C25_Witness ==
  /\ DetectReturned /\ Len(d_sentences) = 1
  /\ d_sentences[1].text = <<W("What"), W("is"), Tok("", "b2b", ".")>>
  /\ d_flags = <<FALSE>>

C25_WitnessScenarioA ==
  /\ DetectReturned
  /\ d_sentences = <<Str(Written("Paris is the capital of France.")),
                     Str(Written("What time is it?"))>>
  /\ d_flags = <<TRUE, FALSE>>

\* ================================================= keyless backend A: anchors
\* A response body is a string, written as the sequence of its characters;
\* positions count from 0 as in the code.
marker == <<"c", "l", "a", "s", "s", "=", "\"", "r", "e", "s", "u", "l", "t", "_", "_", "a", "\"">>

HrefOpen == <<"h", "r", "e", "f", "=", "\"">>

Quote == <<"\"">>

Gt == <<">">>

AnchorEnd == <<"<", "/", "a", ">">>

\* the pieces the response bodies are put together from: a whole href
\* attribute, one whose closing quote is missing, the result marker, the end of
\* a tag, a character of text, the end of an anchor
BodyUnits == {<<"h", "r", "e", "f", "=", "\"", "u", "\"">>, <<"h", "r", "e", "f", "=", "\"", "u">>, marker, Gt, <<"T">>, AnchorEnd}

RECURSIVE Concat(_)
Concat(units) == IF units = <<>> THEN <<>> ELSE Head(units) \o Concat(Tail(units))

Bodies == {Concat(us) : us \in UNION {[1..n -> BodyUnits] : n \in 0..MaxUnits}}

\* does pat occur in s at position i
OccursAt(s, pat, i) ==
  i >= 0 /\ i + Len(pat) <= Len(s) /\ SubSeq(s, i + 1, i + Len(pat)) = pat

\* s.find(pat, start)
find(s, pat, start) ==
  LET at == {i \in Max(0, start)..Len(s) : OccursAt(s, pat, i)}
  IN IF at = {} THEN -1 ELSE CHOOSE i \in at : \A j \in at : i <= j

\* s.rfind(pat, 0, end)
rfind(s, pat, end) ==
  LET at == {i \in 0..end : i + Len(pat) <= end /\ OccursAt(s, pat, i)}
  IN IF at = {} THEN -1 ELSE CHOOSE i \in at : \A j \in at : i >= j

\* s[a:b] for 0 <= a <= b <= len(s)
Slice(s, a, b) == SubSeq(s, a + 1, b)

\* search(query, top_k) with a query is about to be called
DdgInit ==
  /\ OldIdle /\ DetIdle /\ AuthIdle
  /\ a_html \in Bodies
  /\ a_topk \in 1..MaxLimit
  /\ a_pc = "fetching" /\ a_pos = 0 /\ a_anchors = <<>> /\ a_results = <<>>

\* lines 115-120: the page is fetched; lines 125-131
DdgFetch ==
  /\ a_pc = "fetching"
  /\ a_pc' = "loop"
  /\ UNCHANGED <<oldVars, detVars, authVars, a_html, a_topk, a_pos, a_anchors, a_results>>

\* lines 121-122: the request fails, search returns []
DdgFetchFails ==
  /\ a_pc = "fetching"
  /\ a_pc' = "returned" /\ a_results' = <<>>
  /\ UNCHANGED <<oldVars, detVars, authVars, a_html, a_topk, a_pos, a_anchors>>

\* line 150: title_start = html.find(">", idx) + 1
TitleStart(html, idx) == find(html, Gt, idx) + 1

\* lines 133-135: no marker from pos on, the loop ends
DdgBreak ==
  /\ a_pc = "loop"
  /\ find(a_html, marker, a_pos) = -1
  /\ a_pc' = "extracted"
  /\ UNCHANGED <<oldVars, detVars, authVars, a_html, a_topk, a_pos, a_anchors, a_results>>

\* lines 133-163: one iteration that finds a marker
DdgIterate ==
  /\ a_pc = "loop" /\ Len(a_anchors) < MaxAnchors
  /\ LET idx == find(a_html, marker, a_pos)
         href_idx == rfind(a_html, HrefOpen, idx)
         href_start == href_idx + Len(HrefOpen)
         href_end == find(a_html, Quote, href_start)
         title_start == TitleStart(a_html, idx)
         title_end == find(a_html, AnchorEnd, title_start)
     IN /\ idx # -1
        /\ IF href_idx = -1 \/ href_end = -1 \/ title_end = -1
           THEN /\ a_pos' = idx + Len(marker)
                /\ a_anchors' = a_anchors
           ELSE /\ a_anchors' = Append(a_anchors,
                                       [href |-> Slice(a_html, href_start, href_end),
                                        title |-> Slice(a_html, title_start, title_end)])
                /\ a_pos' = title_end + 4
  /\ UNCHANGED <<oldVars, detVars, authVars, a_html, a_topk, a_pc, a_results>>

\* lines 169-188: an anchor with a url and a title gives a result, up to top_k
DdgReturn ==
  /\ a_pc = "extracted"
  /\ a_results' = Take(SelectSeq(a_anchors, LAMBDA a : a.href # <<>> /\ a.title # <<>>),
                       a_topk)
  /\ a_pc' = "returned"
  /\ UNCHANGED <<oldVars, detVars, authVars, a_html, a_topk, a_pos, a_anchors>>

DdgNext == DdgFetch \/ DdgFetchFails \/ DdgBreak \/ DdgIterate \/ DdgReturn

DdgSpec == DdgInit /\ [][DdgNext]_vars

\* C28: every iteration of the anchor loop moves the search position forward,
\* so the loop ends: an iteration never leaves pos where it was or behind.
C28_LoopAdvances ==
  [][(a_pc = "loop" /\ a_pc' = "loop") => a_pos' > a_pos]_vars

\* ===================================================================== auth
\* the Authorization header values a request may carry; "Bearer ~" ends with a
\* no-break space, which str.strip() takes off and which is not trimmed from a
\* header value in transit
AuthorizationValues ==
  {None, "", "  ", "Bearer tok", "Bearer other", "Bearer ", "Bearer ~", "bearer tok",
   "Bearer  tok ", "Bearer", "Basic tok", "tok"}

ApiTokenValues == {Unset, "", "tok"}

AllowNoAuthValues == {Unset, "true", "false", " YES ", "0"}

\* lines 7-12: str(raw).strip().lower() in {"1", "true", "yes", "on"}
_env_bool(raw, default) ==
  IF raw = Unset THEN default
  ELSE (CASE raw = " YES " -> "yes" [] OTHER -> raw) \in {"1", "true", "yes", "on"}

\* authorization is None or not authorization.strip()
MissingOrBlank(authorization) == authorization \in {None, "", "  "}

\* authorization.lower().startswith("bearer ")
StartsWithBearer(authorization) ==
  authorization \in {"Bearer tok", "Bearer other", "Bearer ", "Bearer ~", "bearer tok",
                     "Bearer  tok "}

\* authorization.split(" ", 1)[1].strip()
BearerToken(authorization) ==
  CASE authorization \in {"Bearer tok", "bearer tok", "Bearer  tok "} -> "tok"
    [] authorization = "Bearer other" -> "other"
    [] authorization \in {"Bearer ", "Bearer ~"} -> ""

Anonymous ==
  [raised |-> FALSE, user_id |-> "anonymous", scopes |-> <<>>, authenticated |-> FALSE]

ApiTokenUser ==
  [raised |-> FALSE, user_id |-> "api-token-user", scopes |-> <<"inference:run">>,
   authenticated |-> TRUE]

Unauthorized == [raised |-> TRUE, status_code |-> 401]

\* lines 16-57
auth_required(authorization, allow_raw, expected) ==
  IF MissingOrBlank(authorization) /\ _env_bool(allow_raw, FALSE) THEN Anonymous
  ELSE IF authorization \in {None, ""} \/ ~StartsWithBearer(authorization)
       THEN Unauthorized
  ELSE IF expected = Unset \/ BearerToken(authorization) # expected THEN Unauthorized
  ELSE ApiTokenUser

\* a request to /inference/stream arrives
AuthInit ==
  /\ OldIdle /\ DetIdle /\ DdgIdle
  /\ h_authorization \in AuthorizationValues
  /\ h_allow_no_auth \in AllowNoAuthValues
  /\ h_api_token \in ApiTokenValues
  /\ h_pc = "new" /\ h_user = <<>>

\* the dependency of stream_inference is resolved
AuthCheck ==
  /\ h_pc = "new"
  /\ h_user' = auth_required(h_authorization, h_allow_no_auth, h_api_token)
  /\ h_pc' = "checked"
  /\ UNCHANGED <<oldVars, detVars, ddgVars, h_authorization, h_allow_no_auth, h_api_token>>

\* inference.py 182-187: the handler runs with the user context
AuthAdmit ==
  /\ h_pc = "checked" /\ ~h_user.raised
  /\ h_pc' = "handler"
  /\ UNCHANGED <<oldVars, detVars, ddgVars, h_authorization, h_allow_no_auth, h_api_token,
                 h_user>>

\* the HTTPException becomes the 401 response, the handler does not run
AuthDeny ==
  /\ h_pc = "checked" /\ h_user.raised
  /\ h_pc' = "denied"
  /\ UNCHANGED <<oldVars, detVars, ddgVars, h_authorization, h_allow_no_auth, h_api_token,
                 h_user>>

AuthNext == AuthCheck \/ AuthAdmit \/ AuthDeny

AuthSpec == AuthInit /\ [][AuthNext]_vars

\* a header of the form Bearer <token> (the scheme in any case), and its token
IsBearerHeader(h) ==
  h \in {"Bearer tok", "Bearer other", "Bearer ", "Bearer ~", "bearer tok", "Bearer  tok "}

TokenIn(h) ==
  IF h \in {"Bearer tok", "bearer tok", "Bearer  tok "} THEN "tok"
  ELSE IF h = "Bearer other" THEN "other" ELSE ""

MayAuthenticate ==
  /\ IsBearerHeader(h_authorization) /\ TokenIn(h_authorization) # ""
  /\ h_api_token \notin {Unset, ""}
  /\ TokenIn(h_authorization) = h_api_token

MayBeAnonymous ==
  /\ h_authorization \in {None, "", "  "}
  /\ h_allow_no_auth \in {"true", " YES "}

\* C30: the authenticated user context is returned only for a Bearer header
\* with a non-empty token equal to a configured, non-empty API_TOKEN; the
\* anonymous context only for a missing or blank header with ALLOW_NO_AUTH
\* true; every other request is rejected with 401 and never reaches the handler.
C30_AuthDecision ==
  h_pc \notin {"idle", "new"} =>
    /\ (~h_user.raised /\ h_user.authenticated) => MayAuthenticate
    /\ (~h_user.raised /\ ~h_user.authenticated) => MayBeAnonymous
    /\ (~MayAuthenticate /\ ~MayBeAnonymous) =>
         (h_user.raised /\ h_user.status_code = 401 /\ h_pc # "handler")

====
